---- MODULE Spec2Model ----
(***************************************************************************)
(* reddit-notifier: the polling-and-dispatch engine.                       *)
(*                                                                         *)
(* The store (subscriptions, endpoints, their links and the notified_posts *)
(* ledger), the token-bucket rate limiter, the combined poller loop of     *)
(* src/poller.rs and the start-up / shutdown race of                       *)
(* src/bin/reddit-notifier.rs.  Time is counted in seconds.  Every action  *)
(* of the poller runs from one suspension point (.await) of the loop to    *)
(* the next one.                                                           *)
(*                                                                         *)
(* Specifications: Spec (the engine), SpecLedger (callers of               *)
(* record_if_new), SpecLimiter (tasks calling acquire() on one limiter),   *)
(* SpecConnect (connect_with_retry), SpecConfig (AppConfig::from_env),     *)
(* SpecRace (race_with_shutdown over any future), SpecAdmin and           *)
(* SpecRelink (the engine with the front-end editing the store beside     *)
(* it), SpecLive (the loop under fair scheduling), SpecChunks (the         *)
(* partition into batches), SpecUrl (the URL of a post), SpecAcquire (one  *)
(* caller of acquire() as time passes) and SpecConnectLive                 *)
(* (connect_with_retry with every attempt returning).                      *)
(***************************************************************************)
EXTENDS Integers, Sequences, FiniteSets, Bags, TLC

VARIABLES
    \* ---- the store (SQLite tables)
    subscriptions,   \* id -> subreddit
    endpoints,       \* id -> [kind, config_json, active]
    links,           \* subscription_endpoints: set of <<subscription_id, endpoint_id>>
    notified_posts,  \* set of rows [id, subreddit, post_id, first_seen_at]
    \* ---- the environment
    now,             \* wall clock, seconds
    ticks,           \* number of clock advances so far
    pool,            \* the posts Reddit has to return
    \* ---- main() of the engine
    mode,            \* "engine": main() runs; "direct": the library function is called
    mainPc,          \* "startup" | "sleep10" | "running" | "exited" | "direct"
    exit,            \* how main() ended
    rate,            \* cfg.rate_limit_per_minute
    \* ---- RateLimiter
    tokens, last_refill,
    \* ---- poll_combined_subreddits_loop
    pc,              \* "idle" | "entry" | "mapping" | "acquire" | "sleep" | "fetch"
                     \* | "item" | "send" | "returned" | "cancelled"
    subreddits,      \* the argument
    batches,         \* its chunks
    bi,              \* index of the current batch
    mappings,        \* the mapping fetched in this iteration
    listing,         \* listing.data.children of the current batch
    ii,              \* index of the current item
    unique_eps,      \* unique_endpoints of the current item
    ei,              \* index of the endpoint whose send is in flight
    wake_at,         \* end of the current tokio::time::sleep (an Instant)
    \* ---- history
    sends,           \* bag of <<subreddit, post_id, endpoint id>>: send calls issued
    outstanding,     \* acquire() calls that returned minus batch GET requests issued
    lastEv,          \* what the last poller step did
    item,            \* the post ProcessItem took last
    builds,          \* endpoint ids build_notifier was called on for the current item
    tried,           \* [id, ok]: the send calls issued for the current item
    \* ---- callers of DatabaseService::record_if_new
    service,         \* "none" | "sqlite" | "mock": the implementation called
    calls,           \* caller -> [pc, subreddit, post_id, pre, begun_at]
    posts,           \* MockDatabaseService.posts
    next_id,         \* MockDatabaseService.next_id
    posts_lock,      \* holder of the Mutex of posts, 0 when free
    log,             \* the calls that returned, in the order of their return
    \* ---- tasks calling acquire() on clones of one RateLimiter
    clock,           \* Instant::now(), in clock units since RateLimiter::new
    max_tokens,      \* RateLimiter.max_tokens
    refill_rate,     \* RateLimiter.refill_rate (a Duration)
    acq,             \* task -> [pc, fresh (called as the limiter was created), slept, wake_at]
    state_lock,      \* holder of the tokio Mutex of the state, 0 when free
    granted,         \* acquire() calls that returned
    added,           \* tokens the refills put into the bucket
    acq_log,         \* [fresh, ret, slept] of the first two calls that returned
    \* ---- connect_with_retry
    retry_config,    \* ConnectionConfig: [max_retries, initial_delay_ms, max_delay_ms]
    connect_pc,      \* "idle" | "connect" | "sleep" | "ok" | "err"
    attempt,         \* let mut attempt
    delay_ms,        \* let mut delay_ms
    connects,        \* the outcome of every connection attempt made, in order
    slept,           \* the delays slept, in order
    \* ---- AppConfig::from_env
    env,             \* [DATABASE_URL, REDDIT_RATE_LIMIT_PER_MINUTE]: text, or Unset
    app_config,      \* [result: "none" before the call, then "err" or "ok",
                     \*  rate_limit_per_minute]
    \* ---- race_with_shutdown over any future
    sig,             \* signal::ctrl_c(): "pending", or what its poll returns: "ok" | "err"
    fut,             \* the raced future: [ready, output]
    race,            \* [result: "none" | "Shutdown" | "Completed" | "Err", output,
                     \*  resolved: the branch whose poll returned Ready]
    polls,           \* passes of tokio::select! over its branches so far
    \* ---- the front-end, run next to the engine
    edits,           \* configuration edits made since the engine started
    kept_days,       \* the smallest days_to_keep cleanup_old_posts ran with, 0: none
    \* ---- the URL of a post
    url_post,        \* the post: [permalink, url: Option<String>, subreddit, id]
    url              \* NoOption before let url = ..., then Some(the URL built)

dbVars == <<subscriptions, endpoints, links, notified_posts>>
envVars == <<now, ticks, pool>>
mainVars == <<mode, mainPc, exit, rate>>
limVars == <<tokens, last_refill>>
pollVars == <<pc, subreddits, batches, bi, mappings, listing, ii, unique_eps, ei, wake_at>>
histVars == <<sends, outstanding, lastEv, item, builds, tried>>
ledgerVars == <<service, calls, posts, next_id, posts_lock, log>>
limiterVars == <<clock, max_tokens, refill_rate, acq, state_lock, granted, added, acq_log>>
\* What the engine leaves alone, and what the callers of record_if_new do.
connectVars == <<retry_config, connect_pc, attempt, delay_ms, connects, slept>>
configVars == <<env, app_config>>
raceVars == <<sig, fut, race, polls>>
adminVars == <<edits, kept_days>>
urlVars == <<url_post, url>>
sideVars == <<ledgerVars, limiterVars, connectVars, configVars, raceVars, adminVars, urlVars>>
engineVars == <<subscriptions, endpoints, links, envVars, mainVars, limVars, pollVars, histVars,
                limiterVars, connectVars, configVars, raceVars, adminVars, urlVars>>
vars == <<dbVars, envVars, mainVars, limVars, pollVars, histVars, ledgerVars, limiterVars,
          connectVars, configVars, raceVars, adminVars, urlVars>>

\* ------------------------------------------------------------------ bounds
MaxTicks == 2
MaxItems == 2
MaxCalls == 3

\* --------------------------------------------------------- program constants
SecondsPerMinute == 60
WindowHours == 24
MAX_SUBREDDITS_PER_BATCH == 100
StartupPollSeconds == 10

WindowSeconds == WindowHours * 3600

\* Instants and Durations are counted in clock units, UnitsPerMilli to the
\* millisecond: the resolution kept below that of Duration::as_millis().
UnitsPerMilli == 4
\* Duration::from_millis, Duration::from_secs
Millis(ms) == ms * UnitsPerMilli
Secs(sec) == Millis(sec * 1000)
\* Duration::as_millis(): whole milliseconds, the rest is dropped
AsMillis(d) == d \div UnitsPerMilli
\* Instant::now() when the wall clock shows t seconds
Instant(t) == Secs(t)
T0 == 2 * WindowSeconds

Abs(x) == IF x < 0 THEN 0 - x ELSE x
Min(a, b) == IF a <= b THEN a ELSE b

\* ------------------------------------------------------------------- store
\* EndpointKind::from_str
ParseKind(kind_str) == kind_str \in {"discord", "pushover"}

\* The rows of the join of all_subreddit_endpoint_mappings (and of
\* unique_subreddits): e.active = 1, in (subscription id, endpoint id) order
\* within a subreddit.
RECURSIVE SeqOfPairs(_)
SeqOfPairs(S) ==
    IF S = {} THEN <<>>
    ELSE LET m == CHOOSE p \in S : \A q \in S :
                      p[1] < q[1] \/ (p[1] = q[1] /\ p[2] <= q[2])
         IN <<m>> \o SeqOfPairs(S \ {m})

\* The join without WHERE e.active = 1.
JoinIgnoringActive(subs, eps, lks) ==
    SelectSeq(SeqOfPairs(lks), LAMBDA p : p[1] \in DOMAIN subs /\ p[2] \in DOMAIN eps)

ActiveJoin(subs, eps, lks) ==
    SelectSeq(SeqOfPairs(lks),
              LAMBDA p : p[1] \in DOMAIN subs /\ p[2] \in DOMAIN eps /\ eps[p[2]].active)

EndpointRowOf(eps, id) ==
    [id |-> id, kind |-> eps[id].kind, config_json |-> eps[id].config_json,
     active |-> eps[id].active]

RECURSIVE RowsToEndpoints(_, _, _, _)
RowsToEndpoints(rows, subs, eps, f) ==
    IF rows = <<>> THEN <<>>
    ELSE LET p == Head(rows)
             rest == RowsToEndpoints(Tail(rows), subs, eps, f)
         IN IF subs[p[1]] = f /\ ParseKind(eps[p[2]].kind)
            THEN <<EndpointRowOf(eps, p[2])>> \o rest
            ELSE rest

\* A row whose kind does not parse empties the whole mapping.
MappingsEmptiedByBadKind(subs, eps, lks) ==
    LET rows == ActiveJoin(subs, eps, lks)
        keys == IF \E k \in 1..Len(rows) : ~ParseKind(eps[rows[k][2]].kind)
                THEN {}
                ELSE {subs[rows[k][1]] : k \in 1..Len(rows)}
    IN [f \in keys |-> RowsToEndpoints(rows, subs, eps, f)]

\* The rows of the query grouped by subreddit; a row whose kind does not
\* parse is skipped (continue).
all_subreddit_endpoint_mappings(subs, eps, lks) ==
    LET rows == ActiveJoin(subs, eps, lks)
        keys == {subs[rows[k][1]] : k \in {j \in 1..Len(rows) : ParseKind(eps[rows[j][2]].kind)}}
    IN [f \in keys |-> RowsToEndpoints(rows, subs, eps, f)]

\* MockDatabaseService::all_subreddit_endpoint_mappings: for every link whose
\* subscription exists and whose endpoint exists and is active, the endpoint
\* is pushed to the entry of the subscription's subreddit.
RECURSIVE MockRowsToEndpoints(_, _, _, _)
MockRowsToEndpoints(lks, subs, eps, f) ==
    IF lks = <<>> THEN <<>>
    ELSE LET p == Head(lks)
             rest == MockRowsToEndpoints(Tail(lks), subs, eps, f)
         IN IF p[1] \in DOMAIN subs /\ subs[p[1]] = f
               /\ p[2] \in DOMAIN eps /\ eps[p[2]].active
            THEN <<EndpointRowOf(eps, p[2])>> \o rest
            ELSE rest

MockAllMappings(subs, eps, lks) ==
    LET list == SeqOfPairs(lks)
        keys == {subs[list[k][1]] : k \in {j \in 1..Len(list) :
                    /\ list[j][1] \in DOMAIN subs
                    /\ list[j][2] \in DOMAIN eps
                    /\ eps[list[j][2]].active}}
    IN [f \in keys |-> MockRowsToEndpoints(list, subs, eps, f)]

\* SELECT DISTINCT s.subreddit ...: first occurrences, in row order.
RECURSIVE Distinct(_)
Distinct(s) ==
    IF s = <<>> THEN <<>>
    ELSE LET d == Distinct(SubSeq(s, 1, Len(s) - 1))
             x == s[Len(s)]
         IN IF \E k \in 1..Len(d) : d[k] = x THEN d ELSE Append(d, x)

unique_subreddits(subs, eps, lks) ==
    LET rows == ActiveJoin(subs, eps, lks)
    IN Distinct([k \in 1..Len(rows) |-> subs[rows[k][1]]])

\* The notified_posts table declares UNIQUE(subreddit, post_id) and
\* first_seen_at DEFAULT CURRENT_TIMESTAMP (the migration).
NotifiedPostsUnique == TRUE

NextRowId(rows) ==
    IF rows = {} THEN 1
    ELSE 1 + (CHOOSE m \in {r.id : r \in rows} : \A r \in rows : r.id <= m)

\* INSERT OR REPLACE in the place of INSERT OR IGNORE: the row is rewritten and
\* counted as affected.
RecordIfNewReplaces(rows, subreddit, post_id, t) ==
    [rows |-> {r \in rows : ~(r.subreddit = subreddit /\ r.post_id = post_id)}
              \cup {[id |-> NextRowId(rows), subreddit |-> subreddit,
                     post_id |-> post_id, first_seen_at |-> t]},
     is_new |-> TRUE]

\* INSERT OR IGNORE INTO notified_posts (subreddit, post_id): the rows after the
\* statement and rows_affected() == 1.
record_if_new(rows, subreddit, post_id, t) ==
    LET conflict == NotifiedPostsUnique
                    /\ \E r \in rows : r.subreddit = subreddit /\ r.post_id = post_id
        rows_affected == IF conflict THEN 0 ELSE 1
    IN [rows |-> IF conflict THEN rows
                 ELSE rows \cup {[id |-> NextRowId(rows), subreddit |-> subreddit,
                                  post_id |-> post_id, first_seen_at |-> t]},
        is_new |-> rows_affected = 1]

\* --------------------------------------------------------------- notifiers
\* build_notifier: serde_json::from_str of config_json into the kind's config.
build_notifier(row) ==
    \/ row.kind = "discord" /\ row.config_json = "discord_cfg"
    \/ row.kind = "pushover" /\ row.config_json = "pushover_cfg"

\* ------------------------------------------------------------------ poller
\* chunks() that drops a last chunk shorter than n.
RECURSIVE ChunksExact(_, _)
ChunksExact(s, n) ==
    IF Len(s) < n THEN <<>>
    ELSE <<SubSeq(s, 1, n)>> \o ChunksExact(SubSeq(s, n + 1, Len(s)), n)

\* subreddits.chunks(MAX_SUBREDDITS_PER_BATCH)
RECURSIVE Chunks(_, _)
Chunks(s, n) ==
    IF s = <<>> THEN <<>>
    ELSE IF Len(s) <= n THEN <<s>>
    ELSE <<SubSeq(s, 1, n)>> \o Chunks(SubSeq(s, n + 1, Len(s)), n)

\* The window test without .abs(): only posts that are too old are skipped.
IsWithin24hPastOnly(t, created_utc) == t - created_utc <= WindowSeconds

\* time_diff.abs() <= TimeDelta::hours(24)
is_within_24h(t, created_utc) == Abs(t - created_utc) <= WindowSeconds

\* The endpoints of the entry as they are, without the HashSet filter.
EndpointsNotDeduplicated(eps) == eps

\* endpoints.iter().filter(|e| unique_endpoint_ids.insert(e.id))
RECURSIVE UniqueEndpoints(_)
UniqueEndpoints(eps) ==
    IF eps = <<>> THEN <<>>
    ELSE LET u == UniqueEndpoints(SubSeq(eps, 1, Len(eps) - 1))
             e == eps[Len(eps)]
         IN IF \E k \in 1..Len(u) : u[k].id = e.id THEN u ELSE Append(u, e)


\* The mapping fetch with `?` in the place of the match: the error is returned.
AfterMappingErrorPropagates == "returned"

\* The iteration goes on to its batches without a mapping.
AfterMappingErrorGoesOn == "acquire"

\* Err(e) => { error!(...); continue; } of the mapping fetch
AfterMappingError == "mapping"

\* A body that runs once: the function returns after the last batch.
AfterLastBatchReturns == "returned"

\* loop { ... }: after the last batch the next iteration starts with the
\* mapping fetch.
AfterLastBatch == "mapping"

\* The batch loop without its rate_limiter.acquire().await.
BatchStartWithoutAcquire == "fetch"

\* for batch in &batches { rate_limiter.acquire().await; ...
BatchStartPc == "acquire"

\* Failing open: an error of the store is taken for a new post.
ShouldNotifyFailOpen(db_ok, is_new) == ~db_ok \/ is_new

\* match record_if_new(..).await { Ok(new) => new, Err(e) => { ...; continue; } }
\* followed by if !is_new { continue; }
ShouldNotify(db_ok, is_new) == db_ok /\ is_new

\* An error that leaves the endpoint loop (`?` or break on Err).
NextEndpointStopsOnError(k, failed) == IF failed THEN k + 1000 ELSE k + 1

\* for ep in unique_endpoints: the index of the endpoint the loop goes on with
\* after endpoint k, whatever build_notifier or send returned for k.
NextEndpoint(k, failed) == k + 1

\* The first endpoint from index k on whose notifier builds (its send is the
\* next suspension point), Len + 1 when there is none.
RECURSIVE FirstBuildable(_, _)
FirstBuildable(eps, k) ==
    IF k > Len(eps) THEN Len(eps) + 1
    ELSE IF build_notifier(eps[k]) THEN k
    ELSE FirstBuildable(eps, NextEndpoint(k, TRUE))

\* The ids build_notifier is called on while going from index k to index j.
RECURSIVE BuildCalls(_, _, _)
BuildCalls(eps, k, j) ==
    IF k > Len(eps) \/ k > j THEN <<>>
    ELSE <<eps[k].id>> \o BuildCalls(eps, NextEndpoint(k, ~build_notifier(eps[k])), j)

\* ------------------------------------------------------------ rate limiter
\* RateLimiter::new(cfg.rate_limit_per_minute, Duration::from_secs(60) / rate)
MaxTokens(r) == r
RefillRate(r) == Secs(SecondsPerMinute) \div r

\* One pass of the loop of acquire() under the lock: refill, then consume.
\* A refill that adds the tokens of the elapsed time and keeps last_refill.
RefillKeepsLastRefill(tk, lr, t, mt, rr) ==
    LET tokens_to_add == AsMillis(t - lr) \div AsMillis(rr)
    IN [tokens |-> IF tokens_to_add > 0 THEN Min(tk + tokens_to_add, mt) ELSE tk,
        last_refill |-> lr]

\* A refill without .min(self.max_tokens).
RefillTokensUncapped(tk, lr, t, mt, rr) ==
    LET tokens_to_add == AsMillis(t - lr) \div AsMillis(rr)
    IN [tokens |-> tk + tokens_to_add,
        last_refill |-> IF tokens_to_add > 0 THEN t ELSE lr]

\* The refill of acquire(): elapsed, tokens_to_add, and, when tokens are due,
\* the capped sum and last_refill = now.
RefillTokens(tk, lr, t, mt, rr) ==
    LET elapsed == t - lr
        tokens_to_add == AsMillis(elapsed) \div AsMillis(rr)
    IN [tokens |-> IF tokens_to_add > 0 THEN Min(tk + tokens_to_add, mt) ELSE tk,
        last_refill |-> IF tokens_to_add > 0 THEN t ELSE lr]

AcquirePass(tk, lr, t, mt, rr) ==
    LET r == RefillTokens(tk, lr, t, mt, rr)
    IN IF r.tokens > 0
       THEN [granted |-> TRUE, tokens |-> r.tokens - 1, last_refill |-> r.last_refill]
       ELSE [granted |-> FALSE, tokens |-> r.tokens, last_refill |-> r.last_refill]

\* ------------------------------------------------------------ the inputs
Subscriptions0 == (1 :> "rust") @@ (2 :> "rust") @@ (3 :> "Rust")

Endpoints0 ==
       (1 :> [kind |-> "discord", config_json |-> "discord_cfg", active |-> TRUE])
    @@ (2 :> [kind |-> "discord", config_json |-> "malformed", active |-> TRUE])
    @@ (3 :> [kind |-> "pushover", config_json |-> "pushover_cfg", active |-> TRUE])
    @@ (4 :> [kind |-> "pushover", config_json |-> "pushover_cfg", active |-> FALSE])
    @@ (5 :> [kind |-> "bogus", config_json |-> "discord_cfg", active |-> TRUE])

\* Endpoint 2, whose notifier does not build, between two that work;
\* endpoint 1 is linked through both subscriptions of r/rust.
DirectLinks == {<<1, 1>>, <<1, 2>>, <<1, 3>>, <<2, 1>>}

\* Link tables the engine may find: none; two working endpoints, one linked
\* twice; DirectLinks; a failing endpoint first, the inactive and the
\* unparseable endpoint, and a second feed; the unparseable endpoint alone.
LinkChoices ==
    { {},
      {<<1, 1>>, <<1, 3>>, <<2, 1>>},
      DirectLinks,
      {<<1, 2>>, <<1, 3>>, <<2, 4>>, <<2, 5>>, <<3, 3>>},
      {<<1, 5>>} }

Rates == {1}

\* More feeds than one request takes.
ManyFeeds == [i \in 1..(MAX_SUBREDDITS_PER_BATCH + 1) |->
                 IF i = 1 THEN "rust" ELSE "sub" \o ToString(i)]

DirectLists == {<<>>, ManyFeeds}

\* Posts Reddit may return.  "abc" of r/rust is 23h59m old at T0, "fut" is
\* dated 24h01m ahead of T0, and r/Rust has a post with the id "abc" too.
PostAbc == [id |-> "abc", subreddit |-> "rust",
            created_utc |-> T0 - WindowSeconds + SecondsPerMinute]
PostAbcOfRust == [id |-> "abc", subreddit |-> "Rust", created_utc |-> T0]
PostFut == [id |-> "fut", subreddit |-> "rust",
            created_utc |-> T0 + WindowSeconds + SecondsPerMinute]

NoPost == [id |-> "", subreddit |-> "", created_utc |-> 0]

PoolChoices == { {PostAbc, PostAbcOfRust}, {PostAbc, PostFut} }

RECURSIVE SeqsUpTo(_, _)
SeqsUpTo(S, n) ==
    IF n = 0 THEN {<<>>}
    ELSE LET shorter == SeqsUpTo(S, n - 1)
         IN shorter \cup {Append(s, x) : s \in shorter, x \in S}

Listings(ps) == SeqsUpTo(ps, MaxItems)

TickSteps == {SecondsPerMinute}

\* The tasks that call record_if_new, and the pairs they call it with.
Callers == {1, 2}
Pairs == {<<"rust", "abc">>, <<"Rust", "abc">>}
IdleCaller == [pc |-> "idle", subreddit |-> "", post_id |-> "", pre |-> FALSE,
               begun_at |-> 0]
\* The tasks that call acquire() on clones of one limiter.
Tasks == {1, 2}
IdleTask == [pc |-> "idle", fresh |-> FALSE, slept |-> FALSE, wake_at |-> 0]
\* Limiters: capacity 1 or 2, a token every 1 ms or every 1.5 ms.
Capacities == {1, 2}
RefillRates == {Millis(1), Millis(1) + (UnitsPerMilli \div 2)}

\* No task calls acquire() on a limiter of its own.
LimiterUnused ==
    /\ clock = 0
    /\ max_tokens = MaxTokens(rate)
    /\ refill_rate = RefillRate(rate)
    /\ acq = [c \in Tasks |-> IdleTask]
    /\ state_lock = 0
    /\ granted = 0
    /\ added = 0
    /\ acq_log = <<>>

\* ConnectionConfig::default()
DefaultConnectionConfig ==
    [max_retries |-> 5, initial_delay_ms |-> 500, max_delay_ms |-> 5000]

\* connect_with_retry is not called.
ConnectUnused ==
    /\ retry_config = DefaultConnectionConfig
    /\ connect_pc = "idle"
    /\ attempt = 0
    /\ delay_ms = 0
    /\ connects = <<>>
    /\ slept = <<>>

\* An environment variable that is not set.
Unset == <<"unset">>

\* AppConfig::from_env is not called.
ConfigUnused ==
    /\ env = [DATABASE_URL |-> Unset, REDDIT_RATE_LIMIT_PER_MINUTE |-> Unset]
    /\ app_config = [result |-> "none", rate_limit_per_minute |-> 0]

\* The raced future before it is ready, and the race before it is decided.
PendingFuture == [ready |-> FALSE, output |-> "none"]
Undecided == [result |-> "none", output |-> "none", resolved |-> "none"]

\* race_with_shutdown is not called on a future of its own.
RaceUnused ==
    /\ sig = "pending"
    /\ fut = PendingFuture
    /\ race = Undecided
    /\ polls = 0

\* The front-end does nothing.
\* No URL is being built.
NoOption == [some |-> FALSE, value |-> ""]
UrlUnused ==
    /\ url_post = [permalink |-> NoOption, url |-> NoOption, subreddit |-> "", id |-> ""]
    /\ url = NoOption

AdminUnused ==
    /\ edits = 0
    /\ kept_days = 0

\* A row an earlier run left in the ledger.
EarlierRow == [id |-> 1, subreddit |-> "rust", post_id |-> "abc", first_seen_at |-> T0]

\* -------------------------------------------------------------------- Init
Init ==
    /\ subscriptions = Subscriptions0
    /\ endpoints = Endpoints0
    /\ links \in LinkChoices
    /\ notified_posts = {}
    /\ now = T0
    /\ ticks = 0
    /\ pool \in PoolChoices
    /\ rate \in Rates
    /\ mode \in {"engine", "direct"}
    /\ mode = "direct" => links = DirectLinks
    /\ exit = "none"
    /\ IF mode = "engine"
       THEN /\ mainPc = "startup"
            /\ pc = "idle"
            /\ subreddits = <<>>
            /\ tokens = 0
            /\ last_refill = 0
       ELSE /\ mainPc = "direct"
            /\ pc = "entry"
            /\ subreddits \in DirectLists
            /\ tokens = 1
            /\ last_refill = Instant(now)
    /\ batches = <<>>
    /\ bi = 0
    /\ mappings = <<>>
    /\ listing = <<>>
    /\ ii = 0
    /\ unique_eps = <<>>
    /\ ei = 0
    /\ wake_at = 0
    /\ sends = EmptyBag
    /\ outstanding = 0
    /\ lastEv = "none"
    /\ item = NoPost
    /\ builds = <<>>
    /\ tried = <<>>
    /\ service = "none"
    /\ calls = [c \in Callers |-> IdleCaller]
    /\ posts = <<>>
    /\ next_id = 1
    /\ posts_lock = 0
    /\ log = <<>>
    /\ LimiterUnused
    /\ ConnectUnused
    /\ ConfigUnused
    /\ RaceUnused
    /\ AdminUnused
    /\ UrlUnused

\* ------------------------------------------------------------------ main()
\* The start-up loop: unique_subreddits(&pool).await?, then either the
\* 10 s sleep raced against Ctrl+C or RateLimiter::new and the raced poller.
\* main() with no wait for subscriptions: the loop is called with the list
\* read, empty or not.
MainStartupWithoutWaiting ==
    /\ mainPc = "startup"
    /\ \E db_ok \in BOOLEAN :
         IF ~db_ok
         THEN /\ mainPc' = "exited"
              /\ exit' = "db_err"
              /\ UNCHANGED <<pc, subreddits, wake_at, limVars>>
         ELSE /\ mainPc' = "running"
              /\ subreddits' = unique_subreddits(subscriptions, endpoints, links)
              /\ tokens' = 1
              /\ last_refill' = Instant(now)
              /\ pc' = "entry"
              /\ UNCHANGED <<exit, wake_at>>
    /\ UNCHANGED <<dbVars, envVars, mode, rate, histVars>>
    /\ UNCHANGED <<batches, bi, mappings, listing, ii, unique_eps, ei>>
    /\ UNCHANGED sideVars

MainStartup ==
    /\ mainPc = "startup"
    /\ \E db_ok \in BOOLEAN :
         IF ~db_ok
         THEN /\ mainPc' = "exited"
              /\ exit' = "db_err"
              /\ UNCHANGED <<pc, subreddits, wake_at, limVars>>
         ELSE LET subs == unique_subreddits(subscriptions, endpoints, links)
              IN IF subs # <<>>
                 THEN /\ mainPc' = "running"
                      /\ subreddits' = subs
                      /\ tokens' = 1
                      /\ last_refill' = Instant(now)
                      /\ pc' = "entry"
                      /\ UNCHANGED <<exit, wake_at>>
                 ELSE /\ mainPc' = "sleep10"
                      /\ wake_at' = Instant(now) + Secs(StartupPollSeconds)
                      /\ UNCHANGED <<exit, pc, subreddits, limVars>>
    /\ UNCHANGED <<dbVars, envVars, mode, rate, histVars>>
    /\ UNCHANGED <<batches, bi, mappings, listing, ii, unique_eps, ei>>
    /\ UNCHANGED sideVars

MainSleepDone ==
    /\ mainPc = "sleep10"
    /\ Instant(now) >= wake_at
    /\ mainPc' = "startup"
    /\ UNCHANGED <<dbVars, envVars, mode, exit, rate, limVars, pollVars, histVars>>
    /\ UNCHANGED sideVars

\* race_with_shutdown: signal::ctrl_c() resolves first; the raced future is
\* dropped wherever it is suspended.  Registering the listener can only fail
\* before the raced future has made a step of its own.
CtrlC ==
    /\ mainPc \in {"sleep10", "running"}
    /\ \E listen_ok \in (IF pc \in {"idle", "entry"} THEN BOOLEAN ELSE {TRUE}) :
         exit' = IF ~listen_ok THEN "signal_err"
                 ELSE IF mainPc = "sleep10" THEN "shutdown_startup" ELSE "shutdown"
    /\ mainPc' = "exited"
    /\ pc' = IF mainPc = "running" THEN "cancelled" ELSE pc
    /\ UNCHANGED <<dbVars, envVars, mode, rate, limVars, histVars>>
    /\ UNCHANGED <<subreddits, batches, bi, mappings, listing, ii, unique_eps, ei, wake_at>>
    /\ UNCHANGED sideVars

\* ------------------------------------------- poll_combined_subreddits_loop
\* if subreddits.is_empty() { return Ok(()) }, the chunks, then the loop.
\* Under the race the returned future completes it: ShutdownRace::Completed.
PollerEntry ==
    /\ pc = "entry"
    /\ IF subreddits = <<>>
       THEN /\ pc' = "returned"
            /\ batches' = batches
            /\ IF mode = "engine"
               THEN mainPc' = "exited" /\ exit' = "completed"
               ELSE UNCHANGED <<mainPc, exit>>
       ELSE /\ batches' = Chunks(subreddits, MAX_SUBREDDITS_PER_BATCH)
            /\ pc' = "mapping"
            /\ UNCHANGED <<mainPc, exit>>
    /\ UNCHANGED <<dbVars, envVars, mode, rate, limVars, histVars>>
    /\ UNCHANGED <<subreddits, bi, mappings, listing, ii, unique_eps, ei, wake_at>>
    /\ UNCHANGED sideVars

\* The batch is taken again when its body ends.
GoSameBatch ==
    /\ pc' = "acquire"
    /\ bi' = bi
    /\ listing' = <<>>
    /\ ii' = 0
    /\ ei' = 0

\* The position the loop goes to when the body of `for batch in &batches`
\* ends for batch bi: the next batch, or the next loop iteration.
GoNextBatch ==
    /\ IF bi < Len(batches)
       THEN pc' = BatchStartPc /\ bi' = bi + 1
       ELSE pc' = AfterLastBatch /\ bi' = 0
    /\ listing' = <<>>
    /\ ii' = 0
    /\ ei' = 0

\* ... when the body of `for child in listing.data.children` ends for item ii.
GoNextItem ==
    IF ii < Len(listing)
    THEN /\ pc' = "item"
         /\ ii' = ii + 1
         /\ ei' = 0
         /\ UNCHANGED <<bi, listing>>
    ELSE GoNextBatch

\* What lastEv holds after a mapping fetch that failed: a failure that follows
\* a failure is told apart from it, so that it is a step of its own.
MappingFailed == {"mapping_err", "mapping_err_again"}

\* all_subreddit_endpoint_mappings(&pool).await at the top of the loop
FetchMappings ==
    /\ pc = "mapping"
    /\ \E db_ok \in BOOLEAN :
         IF db_ok
         THEN /\ mappings' = all_subreddit_endpoint_mappings(subscriptions, endpoints, links)
              /\ bi' = 1
              /\ pc' = BatchStartPc
              /\ lastEv' = "mapping_ok"
         ELSE /\ pc' = AfterMappingError
              /\ lastEv' = IF lastEv = "mapping_err" THEN "mapping_err_again"
                           ELSE "mapping_err"
              /\ mappings' = <<>>
              /\ UNCHANGED bi
    /\ item' = NoPost
    /\ unique_eps' = <<>>
    /\ builds' = <<>>
    /\ tried' = <<>>
    /\ UNCHANGED <<dbVars, envVars, mainVars, limVars>>
    /\ UNCHANGED <<subreddits, batches, listing, ii, ei, wake_at, sends, outstanding>>
    /\ UNCHANGED sideVars

\* rate_limiter.acquire(): one pass of its loop
Acquire ==
    /\ pc = "acquire"
    /\ LET r == AcquirePass(tokens, last_refill, Instant(now), MaxTokens(rate), RefillRate(rate))
       IN /\ tokens' = r.tokens
          /\ last_refill' = r.last_refill
          /\ IF r.granted
             THEN /\ pc' = "fetch"
                  /\ outstanding' = outstanding + 1
                  /\ lastEv' = "acquired"
                  /\ UNCHANGED wake_at
             ELSE /\ pc' = "sleep"
                  /\ wake_at' = Instant(now) + (RefillRate(rate) \div 2)
                  /\ lastEv' = "sleep"
                  /\ UNCHANGED outstanding
    /\ item' = NoPost
    /\ unique_eps' = <<>>
    /\ builds' = <<>>
    /\ tried' = <<>>
    /\ UNCHANGED <<dbVars, envVars, mainVars>>
    /\ UNCHANGED <<subreddits, batches, bi, mappings, listing, ii, ei, sends>>
    /\ UNCHANGED sideVars

\* tokio::time::sleep(self.refill_rate / 2) is over
Wake ==
    /\ pc = "sleep"
    /\ Instant(now) >= wake_at
    /\ pc' = "acquire"
    /\ UNCHANGED <<dbVars, envVars, mainVars, limVars, histVars>>
    /\ UNCHANGED <<subreddits, batches, bi, mappings, listing, ii, unique_eps, ei, wake_at>>
    /\ UNCHANGED sideVars

FetchFailures == {"http_err", "status", "parse"}

\* client.get(&json_url).send().await and resp.json().await
FetchBatch ==
    /\ pc = "fetch"
    /\ outstanding' = outstanding - 1
    /\ \E outcome \in FetchFailures \cup {"ok"} :
         IF outcome # "ok"
         THEN /\ lastEv' = "fetch_" \o outcome
              /\ GoNextBatch
         ELSE \E l \in Listings(pool) :
                /\ lastEv' = "fetch_ok"
                /\ IF l = <<>>
                   THEN GoNextBatch
                   ELSE /\ listing' = l
                        /\ ii' = 1
                        /\ pc' = "item"
                        /\ ei' = 0
                        /\ UNCHANGED bi
    /\ item' = NoPost
    /\ unique_eps' = <<>>
    /\ builds' = <<>>
    /\ tried' = <<>>
    /\ UNCHANGED <<dbVars, envVars, mainVars, limVars>>
    /\ UNCHANGED <<subreddits, batches, mappings, wake_at, sends>>
    /\ UNCHANGED sideVars

\* One child of the listing: the window test, record_if_new(..).await, the
\* mapping lookup, the deduplication of its endpoints and build_notifier up
\* to the first notifier that builds (its send is the next suspension point).
\* lastEv tells what the dedup gate answered when it was called.
ProcessItem ==
    /\ pc = "item"
    /\ LET post == listing[ii]
           subreddit == post.subreddit
       IN /\ item' = post
          /\ IF ~is_within_24h(now, post.created_utc)
             THEN /\ lastEv' = "stale"
                  /\ GoNextItem
                  /\ unique_eps' = <<>>
                  /\ builds' = <<>>
                  /\ UNCHANGED notified_posts
             ELSE \E db_ok \in BOOLEAN :
                    LET r == record_if_new(notified_posts, subreddit, post.id, now)
                        ueps == IF subreddit \in DOMAIN mappings
                                THEN UniqueEndpoints(mappings[subreddit]) ELSE <<>>
                        first == FirstBuildable(ueps, 1)
                    IN /\ notified_posts' = IF db_ok THEN r.rows ELSE notified_posts
                       /\ lastEv' = IF ~db_ok THEN "dedup_err"
                                    ELSE IF r.is_new THEN "new" ELSE "dup"
                       /\ IF ~ShouldNotify(db_ok, r.is_new) \/ subreddit \notin DOMAIN mappings
                          THEN /\ GoNextItem
                               /\ unique_eps' = <<>>
                               /\ builds' = <<>>
                          ELSE /\ unique_eps' = ueps
                               /\ builds' = BuildCalls(ueps, 1, first)
                               /\ IF first <= Len(ueps)
                                  THEN /\ pc' = "send"
                                       /\ ei' = first
                                       /\ UNCHANGED <<bi, listing, ii>>
                                  ELSE GoNextItem
    /\ tried' = <<>>
    /\ UNCHANGED <<subscriptions, endpoints, links, envVars, mainVars, limVars>>
    /\ UNCHANGED <<subreddits, batches, mappings, wake_at, sends, outstanding>>
    /\ UNCHANGED sideVars

\* notifier.send(subreddit, &post.title, &url).await for endpoint ei, then
\* build_notifier for the following endpoints up to the next one that builds.
Send ==
    /\ pc = "send"
    /\ LET post == listing[ii]
           ep == unique_eps[ei]
       IN \E send_ok \in BOOLEAN :
            LET from == NextEndpoint(ei, ~send_ok)
                nxt == FirstBuildable(unique_eps, from)
            IN /\ sends' = sends (+) SetToBag({<<post.subreddit, post.id, ep.id>>})
               /\ tried' = Append(tried, [id |-> ep.id, ok |-> send_ok])
               /\ builds' = builds \o BuildCalls(unique_eps, from, nxt)
               /\ lastEv' = IF send_ok THEN "send_ok" ELSE "send_err"
               /\ IF nxt <= Len(unique_eps)
                  THEN /\ ei' = nxt
                       /\ UNCHANGED <<pc, bi, listing, ii>>
                  ELSE GoNextItem
    /\ UNCHANGED <<dbVars, envVars, mainVars, limVars>>
    /\ UNCHANGED <<subreddits, batches, mappings, unique_eps, wake_at, outstanding, item>>
    /\ UNCHANGED sideVars

\* ------------------------------------------------------------- environment
Tick ==
    /\ ticks < MaxTicks
    /\ mainPc # "exited"
    /\ pc \notin {"returned", "cancelled"}
    /\ \E d \in TickSteps : now' = now + d
    /\ ticks' = ticks + 1
    /\ pool' = pool
    /\ UNCHANGED <<dbVars, mainVars, limVars, pollVars, histVars>>
    /\ UNCHANGED sideVars

Next ==
    \/ MainStartup
    \/ MainSleepDone
    \/ CtrlC
    \/ PollerEntry
    \/ FetchMappings
    \/ Acquire
    \/ Wake
    \/ FetchBatch
    \/ ProcessItem
    \/ Send
    \/ Tick

Spec == Init /\ [][Next]_vars

\* ------------------------------------- DatabaseService::record_if_new, called
\* A check that finds nothing, whatever posts holds.
MockHasPostNever(ps, subreddit, post_id) == FALSE

\* A check on the post id alone, whatever the feed.
MockHasPostByIdOnly(ps, subreddit, post_id) ==
    \E k \in 1..Len(ps) : ps[k].post_id = post_id

\* posts.iter().any(|p| p.subreddit == subreddit && p.post_id == post_id)
MockHasPost(ps, subreddit, post_id) ==
    \E k \in 1..Len(ps) : ps[k].subreddit = subreddit /\ ps[k].post_id = post_id

\* A lock that never makes a caller wait.
MutexAlwaysFree(holder) == TRUE

\* self.posts.lock(): the Mutex is taken only when nobody holds it.
MutexFree(holder) == holder = 0

\* The rows the implementation called holds for a pair.
RowCount(subreddit, post_id) ==
    IF service = "mock"
    THEN Cardinality({k \in 1..Len(posts) :
                         posts[k].subreddit = subreddit /\ posts[k].post_id = post_id})
    ELSE Cardinality({r \in notified_posts :
                         r.subreddit = subreddit /\ r.post_id = post_id})

Returned(c, ok, is_new) ==
    /\ log' = Append(log, [caller |-> c, subreddit |-> calls[c].subreddit,
                           post_id |-> calls[c].post_id, pre |-> calls[c].pre,
                           begun_at |-> calls[c].begun_at, ok |-> ok, is_new |-> is_new])
    /\ calls' = [calls EXCEPT ![c].pc = "idle"]

\* A task calls record_if_new(subreddit, post_id) of the service.
RecordIfNewCall ==
    \E c \in Callers, p \in Pairs :
        /\ service # "none"
        /\ calls[c].pc = "idle"
        /\ Len(log) + Cardinality({d \in Callers : calls[d].pc # "idle"}) < MaxCalls
        /\ calls' = [calls EXCEPT ![c] =
                        [pc |-> "called", subreddit |-> p[1], post_id |-> p[2],
                         pre |-> RowCount(p[1], p[2]) > 0,
                         begun_at |-> Len(log)]]
        /\ UNCHANGED <<notified_posts, engineVars, service, posts, next_id, posts_lock, log>>

\* database::record_if_new: the INSERT OR IGNORE statement runs (one statement,
\* atomic in SQLite) and the call returns, or .execute(pool).await? fails.
SqliteExecute ==
    \E c \in Callers, db_ok \in BOOLEAN :
        /\ service = "sqlite"
        /\ calls[c].pc = "called"
        /\ LET r == record_if_new(notified_posts, calls[c].subreddit, calls[c].post_id, now)
           IN /\ notified_posts' = IF db_ok THEN r.rows ELSE notified_posts
              /\ Returned(c, db_ok, db_ok /\ r.is_new)
        /\ UNCHANGED <<engineVars, service, posts, next_id, posts_lock>>

\* MockDatabaseService::record_if_new: let mut posts = self.posts.lock().unwrap()
MockLock ==
    \E c \in Callers :
        /\ service = "mock"
        /\ calls[c].pc = "called"
        /\ MutexFree(posts_lock)
        /\ posts_lock' = c
        /\ calls' = [calls EXCEPT ![c].pc = "locked"]
        /\ UNCHANGED <<notified_posts, engineVars, service, posts, next_id, log>>

\* if posts.iter().any(..) { return Ok(false); }  (the guard is dropped)
MockCheck ==
    \E c \in Callers :
        /\ service = "mock"
        /\ calls[c].pc = "locked"
        /\ IF MockHasPost(posts, calls[c].subreddit, calls[c].post_id)
           THEN /\ Returned(c, TRUE, FALSE)
                /\ posts_lock' = 0
           ELSE /\ calls' = [calls EXCEPT ![c].pc = "push"]
                /\ UNCHANGED <<log, posts_lock>>
        /\ UNCHANGED <<notified_posts, engineVars, service, posts, next_id>>

\* let id = self.get_next_id(); posts.push(NotifiedPostRow { .. }); Ok(true)
MockPush ==
    \E c \in Callers :
        /\ service = "mock"
        /\ calls[c].pc = "push"
        /\ posts' = Append(posts, [id |-> next_id, subreddit |-> calls[c].subreddit,
                                   post_id |-> calls[c].post_id, first_seen_at |-> now])
        /\ next_id' = next_id + 1
        /\ posts_lock' = 0
        /\ Returned(c, TRUE, TRUE)
        /\ UNCHANGED <<notified_posts, engineVars, service>>

\* The store alone: the tables and the clock as the engine starts with them,
\* no engine running, an empty ledger or one with a row of an earlier run.
InitLedger ==
    /\ subscriptions = Subscriptions0
    /\ endpoints = Endpoints0
    /\ links = DirectLinks
    /\ now = T0
    /\ ticks = 0
    /\ pool = {}
    /\ rate = 1
    /\ mode = "ledger"
    /\ mainPc = "direct"
    /\ exit = "none"
    /\ pc = "idle"
    /\ subreddits = <<>>
    /\ tokens = 0
    /\ last_refill = 0
    /\ batches = <<>>
    /\ bi = 0
    /\ mappings = <<>>
    /\ listing = <<>>
    /\ ii = 0
    /\ unique_eps = <<>>
    /\ ei = 0
    /\ wake_at = 0
    /\ sends = EmptyBag
    /\ outstanding = 0
    /\ lastEv = "none"
    /\ item = NoPost
    /\ builds = <<>>
    /\ tried = <<>>
    /\ service \in {"sqlite", "mock"}
    /\ calls = [c \in Callers |-> IdleCaller]
    /\ posts_lock = 0
    /\ log = <<>>
    /\ LimiterUnused
    /\ ConnectUnused
    /\ ConfigUnused
    /\ RaceUnused
    /\ AdminUnused
    /\ UrlUnused
    /\ \E earlier \in BOOLEAN :
         /\ notified_posts = IF earlier /\ service = "sqlite" THEN {EarlierRow} ELSE {}
         /\ posts = IF earlier /\ service = "mock" THEN <<EarlierRow>> ELSE <<>>
         /\ next_id = IF earlier /\ service = "mock" THEN 2 ELSE 1

NextLedger ==
    \/ RecordIfNewCall
    \/ SqliteExecute
    \/ MockLock
    \/ MockCheck
    \/ MockPush

SpecLedger == InitLedger /\ [][NextLedger]_vars

\* ------------------------------------------------ RateLimiter::acquire, called
MaxClock == 8

\* acq_log keeps the first two calls that return.
LogOpen == Len(acq_log) < 2

\* A lock that never makes a task wait.
StateLockAlwaysFree(holder) == TRUE

\* self.state.lock().await: the Mutex is taken only when nobody holds it.
StateLockFree(holder) == holder = 0

\* The engine is not running and nothing calls the store.
EngineAtRest ==
    /\ subscriptions = Subscriptions0
    /\ endpoints = Endpoints0
    /\ links = DirectLinks
    /\ notified_posts = {}
    /\ now = T0
    /\ ticks = 0
    /\ pool = {}
    /\ exit = "none"
    /\ mainPc = "direct"
    /\ pc = "idle"
    /\ subreddits = <<>>
    /\ batches = <<>>
    /\ bi = 0
    /\ mappings = <<>>
    /\ listing = <<>>
    /\ ii = 0
    /\ unique_eps = <<>>
    /\ ei = 0
    /\ wake_at = 0
    /\ sends = EmptyBag
    /\ outstanding = 0
    /\ lastEv = "none"
    /\ item = NoPost
    /\ builds = <<>>
    /\ tried = <<>>

LedgerUnused ==
    /\ service = "none"
    /\ calls = [c \in Callers |-> IdleCaller]
    /\ posts = <<>>
    /\ next_id = 1
    /\ posts_lock = 0
    /\ log = <<>>

\* What the tasks calling acquire() leave alone.
outsideLimiter == <<dbVars, envVars, mainVars, pollVars, histVars, ledgerVars,
                    connectVars, configVars, raceVars, adminVars, urlVars, max_tokens, refill_rate>>

\* A task calls limiter.acquire().
AcquireCall ==
    \E c \in Tasks :
        /\ mode = "limiter"
        /\ acq[c].pc = "idle"
        /\ acq' = [acq EXCEPT ![c] = [pc |-> "lock", fresh |-> LogOpen /\ clock = 0,
                                      slept |-> FALSE, wake_at |-> 0]]
        /\ UNCHANGED <<outsideLimiter, limVars, clock, state_lock, granted, added, acq_log>>

\* let mut state = self.state.lock().await
AcquireLock ==
    \E c \in Tasks :
        /\ acq[c].pc = "lock"
        /\ StateLockFree(state_lock)
        /\ state_lock' = c
        /\ acq' = [acq EXCEPT ![c].pc = "refill"]
        /\ UNCHANGED <<outsideLimiter, limVars, clock, granted, added, acq_log>>

\* now, elapsed, tokens_to_add; if tokens_to_add > 0 { tokens, last_refill }
\* elapsed.as_millis() / self.refill_rate.as_millis() divides by zero when
\* refill_rate is shorter than a millisecond: the call panics and its guard
\* is dropped.
AcquireRefill ==
    \E c \in Tasks :
        /\ acq[c].pc = "refill"
        /\ IF AsMillis(refill_rate) = 0
           THEN /\ acq' = [acq EXCEPT ![c].pc = "panicked"]
                /\ state_lock' = 0
                /\ UNCHANGED <<limVars, added>>
           ELSE /\ LET r == RefillTokens(tokens, last_refill, clock, max_tokens, refill_rate)
                   IN /\ tokens' = r.tokens
                      /\ last_refill' = r.last_refill
                      /\ added' = added + (r.tokens - tokens)
                /\ acq' = [acq EXCEPT ![c].pc = "check"]
                /\ UNCHANGED state_lock
        /\ UNCHANGED <<outsideLimiter, clock, granted, acq_log>>

\* if state.tokens > 0 { .. } else { drop(state); sleep(self.refill_rate / 2) }
AcquireCheck ==
    \E c \in Tasks :
        /\ acq[c].pc = "check"
        /\ IF tokens > 0
           THEN /\ acq' = [acq EXCEPT ![c].pc = "consume"]
                /\ UNCHANGED state_lock
           ELSE /\ acq' = [acq EXCEPT ![c].pc = "sleep", ![c].slept = LogOpen,
                                      ![c].wake_at = clock + (refill_rate \div 2)]
                /\ state_lock' = 0
        /\ UNCHANGED <<outsideLimiter, limVars, clock, granted, added, acq_log>>

\* state.tokens -= 1; return;  (the guard is dropped)
AcquireConsume ==
    \E c \in Tasks :
        /\ acq[c].pc = "consume"
        /\ tokens' = tokens - 1
        /\ state_lock' = 0
        /\ granted' = granted + 1
        /\ acq_log' = IF LogOpen
                       THEN Append(acq_log, [fresh |-> acq[c].fresh, ret |-> clock,
                                             slept |-> acq[c].slept])
                       ELSE acq_log
        /\ acq' = [acq EXCEPT ![c] = IdleTask]
        /\ UNCHANGED <<outsideLimiter, last_refill, clock, added>>

\* tokio::time::sleep(self.refill_rate / 2) is over: the loop starts again
AcquireWake ==
    \E c \in Tasks :
        /\ acq[c].pc = "sleep"
        /\ clock >= acq[c].wake_at
        /\ acq' = [acq EXCEPT ![c].pc = "lock"]
        /\ UNCHANGED <<outsideLimiter, limVars, clock, state_lock, granted, added, acq_log>>

\* Time passes.
ClockTick ==
    /\ mode = "limiter"
    /\ clock < MaxClock
    /\ clock' = clock + 1
    /\ UNCHANGED <<outsideLimiter, limVars, acq, state_lock, granted, added, acq_log>>

\* RateLimiter::new(max_tokens, refill_rate) has just returned.
InitLimiter ==
    /\ EngineAtRest
    /\ LedgerUnused
    /\ ConnectUnused
    /\ ConfigUnused
    /\ RaceUnused
    /\ AdminUnused
    /\ UrlUnused
    /\ mode = "limiter"
    /\ rate = 1
    /\ max_tokens \in Capacities
    /\ refill_rate \in RefillRates
    /\ tokens = 1
    /\ last_refill = 0
    /\ clock = 0
    /\ acq = [c \in Tasks |-> IdleTask]
    /\ state_lock = 0
    /\ granted = 0
    /\ added = 0
    /\ acq_log = <<>>

NextLimiter ==
    \/ AcquireCall
    \/ AcquireLock
    \/ AcquireRefill
    \/ AcquireCheck
    \/ AcquireConsume
    \/ AcquireWake
    \/ ClockTick

SpecLimiter == InitLimiter /\ [][NextLimiter]_vars

\* ------------------------------------------------------ connect_with_retry
\* The largest max_retries tried.
MaxRetries == 7

\* The configurations ConnectionConfig::from_env can produce (any u32 and
\* u64 the environment gives, 0 included), in milliseconds, and the default
\* one.  All delays stay far below 2^63 ms, where delay_ms * 2 would leave
\* u64.
RetryLimits == 0..MaxRetries
InitialDelays == {0, 1, 3, 12}
MaxDelays == {0, 1, 10}
ConnectionConfigs ==
    [max_retries : RetryLimits, initial_delay_ms : InitialDelays, max_delay_ms : MaxDelays]
        \cup {DefaultConnectionConfig}

\* (delay_ms * 2) with no .min(config.max_delay_ms)
NextDelayUncapped(d, cap) == d * 2

\* delay_ms = (delay_ms * 2).min(config.max_delay_ms)
NextDelay(d, cap) == Min(d * 2, cap)

\* if attempt >= config.max_retries { return Err(e) }
GivesUp(a, limit) == a >= limit

\* A sleep placed before the test of attempt against max_retries.
SleptAfterEveryFailure(next_pc, s, d) ==
    IF next_pc \in {"sleep", "err"} THEN Append(s, d) ELSE s

\* The delays slept so far once an attempt has ended: the Ok arm and the
\* return Err(e) come before tokio::time::sleep and leave them as they are.
SleptAfter(next_pc, s, d) ==
    IF next_pc = "sleep" THEN Append(s, d) ELSE s

\* What connect_with_retry leaves alone.
outsideConnect == <<dbVars, envVars, mainVars, limVars, pollVars, histVars, ledgerVars,
                    limiterVars, configVars, raceVars, adminVars, urlVars, retry_config>>

\* let config = retry_config.unwrap_or_default(); let mut attempt = 0;
\* let mut delay_ms = config.initial_delay_ms;
ConnectCall ==
    /\ mode = "connect"
    /\ connect_pc = "idle"
    /\ attempt' = 0
    /\ delay_ms' = retry_config.initial_delay_ms
    /\ connect_pc' = "connect"
    /\ UNCHANGED <<outsideConnect, connects, slept>>

\* attempt += 1; SqlitePoolOptions::new()...connect_with(..).await, and the
\* match on its result up to the return or to the sleep.
ConnectAttempt ==
    /\ connect_pc = "connect"
    /\ attempt' = attempt + 1
    /\ \E ok \in BOOLEAN :
         /\ connects' = Append(connects, ok)
         /\ connect_pc' = IF ok THEN "ok"
                          ELSE IF GivesUp(attempt', retry_config.max_retries)
                               THEN "err"
                               ELSE "sleep"
         /\ slept' = SleptAfter(connect_pc', slept, delay_ms)
    /\ UNCHANGED <<outsideConnect, delay_ms>>

\* tokio::time::sleep(Duration::from_millis(delay_ms)).await is over; the
\* next delay is computed and the loop goes round.
ConnectSleepDone ==
    /\ connect_pc = "sleep"
    /\ delay_ms' = NextDelay(delay_ms, retry_config.max_delay_ms)
    /\ connect_pc' = "connect"
    /\ UNCHANGED <<outsideConnect, attempt, connects, slept>>

InitConnect ==
    /\ mode = "connect"
    /\ rate = 1
    /\ EngineAtRest
    /\ LedgerUnused
    /\ LimiterUnused
    /\ ConfigUnused
    /\ RaceUnused
    /\ AdminUnused
    /\ UrlUnused
    /\ tokens = 0
    /\ last_refill = 0
    /\ retry_config \in ConnectionConfigs
    /\ connect_pc = "idle"
    /\ attempt = 0
    /\ delay_ms = 0
    /\ connects = <<>>
    /\ slept = <<>>

NextConnect ==
    \/ ConnectCall
    \/ ConnectAttempt
    \/ ConnectSleepDone

SpecConnect == InitConnect /\ [][NextConnect]_vars

\* The same with every connection attempt returning and every sleep ending.
SpecConnectLive ==
    /\ SpecConnect
    /\ WF_vars(ConnectAttempt)
    /\ WF_vars(ConnectSleepDone)

\* ----------------------------------------------------- AppConfig::from_env
\* The longest text tried as the value of an environment variable.
MaxTextLen == 3

MAX_RATE_LIMIT == 50
DEFAULT_RATE_LIMIT == 20

\* u32::MAX = 4294967295, as its quotient and remainder by 10.
U32MaxDiv10 == 429496729
U32MaxMod10 == 5

\* The characters of a value: digits, the sign, and "x" for every other
\* character (a blank, a minus, a point, a letter).
Chars == {"0", "1", "5", "+", "x"}

\* A number that does not fit u32.
TooLong == <<"9", "9", "9", "9", "9", "9", "9", "9", "9", "9", "9">>

\* std::env::var("REDDIT_RATE_LIMIT_PER_MINUTE"): absent, or a text.
RateTexts == {Unset, TooLong} \cup SeqsUpTo(Chars, MaxTextLen)
UrlTexts == {Unset, <<"x">>}

DigitOf(ch) ==
    CASE ch = "0" -> 0 [] ch = "1" -> 1 [] ch = "2" -> 2 [] ch = "3" -> 3
      [] ch = "4" -> 4 [] ch = "5" -> 5 [] ch = "6" -> 6 [] ch = "7" -> 7
      [] ch = "8" -> 8 [] ch = "9" -> 9 [] OTHER -> 0 - 1

ParseErr == [ok |-> FALSE, value |-> 0]

\* The digit loop of u32::from_str: checked_mul(10), checked_add(digit).
RECURSIVE ParseDigits(_, _)
ParseDigits(ds, acc) ==
    IF ds = <<>> THEN [ok |-> TRUE, value |-> acc]
    ELSE LET d == DigitOf(Head(ds))
         IN IF d < 0 THEN ParseErr
            ELSE IF acc > U32MaxDiv10 \/ (acc = U32MaxDiv10 /\ d > U32MaxMod10)
                 THEN ParseErr
                 ELSE ParseDigits(Tail(ds), (acc * 10) + d)

\* s.parse::<u32>(): an optional "+", then at least one digit, nothing else.
ParseU32(s) ==
    LET ds == IF s # <<>> /\ Head(s) = "+" THEN Tail(s) ELSE s
    IN IF ds = <<>> THEN ParseErr ELSE ParseDigits(ds, 0)

\* .ok().and_then(|s| s.parse::<u32>().ok()).unwrap_or(DEFAULT_RATE_LIMIT)
RequestedRate(v) ==
    IF v = Unset THEN DEFAULT_RATE_LIMIT
    ELSE IF ParseU32(v).ok THEN ParseU32(v).value ELSE DEFAULT_RATE_LIMIT

\* The requested rate, taken as it is.
CapRateAbsent(requested_rate) == requested_rate

\* if requested_rate > MAX_RATE_LIMIT { MAX_RATE_LIMIT } else { requested_rate }
CapRate(requested_rate) ==
    IF requested_rate > MAX_RATE_LIMIT THEN MAX_RATE_LIMIT ELSE requested_rate

\* AppConfig::from_env()
FromEnv(e) ==
    IF e.DATABASE_URL = Unset
    THEN [result |-> "err", rate_limit_per_minute |-> 0]
    ELSE [result |-> "ok",
          rate_limit_per_minute |-> CapRate(RequestedRate(e.REDDIT_RATE_LIMIT_PER_MINUTE))]

FromEnvCall ==
    /\ mode = "config"
    /\ app_config.result = "none"
    /\ app_config' = FromEnv(env)
    /\ UNCHANGED <<dbVars, envVars, mainVars, limVars, pollVars, histVars, ledgerVars,
                   limiterVars, connectVars, raceVars, adminVars, urlVars, env>>

InitConfig ==
    /\ mode = "config"
    /\ rate = 1
    /\ EngineAtRest
    /\ LedgerUnused
    /\ LimiterUnused
    /\ ConnectUnused
    /\ RaceUnused
    /\ AdminUnused
    /\ UrlUnused
    /\ tokens = 0
    /\ last_refill = 0
    /\ env \in [DATABASE_URL : UrlTexts, REDDIT_RATE_LIMIT_PER_MINUTE : RateTexts]
    /\ app_config = [result |-> "none", rate_limit_per_minute |-> 0]

\* main: RateLimiter::new(cfg.rate_limit_per_minute,
\*                        Duration::from_secs(60) / cfg.rate_limit_per_minute)
\* Duration / 0 panics.
NewRateLimiter ==
    /\ mode = "config"
    /\ app_config.result = "ok"
    /\ mainPc = "direct"
    /\ LET r == app_config.rate_limit_per_minute
       IN IF r = 0
          THEN /\ mainPc' = "exited"
               /\ exit' = "panic"
               /\ UNCHANGED <<rate, limVars, max_tokens, refill_rate>>
          ELSE /\ mainPc' = "running"
               /\ rate' = r
               /\ max_tokens' = MaxTokens(r)
               /\ refill_rate' = RefillRate(r)
               /\ tokens' = 1
               /\ last_refill' = Instant(now)
               /\ UNCHANGED exit
    /\ UNCHANGED <<dbVars, envVars, mode, pollVars, histVars, ledgerVars>>
    /\ UNCHANGED <<clock, acq, state_lock, granted, added, acq_log>>
    /\ UNCHANGED <<connectVars, configVars, raceVars, adminVars, urlVars>>

NextConfig ==
    \/ FromEnvCall
    \/ NewRateLimiter

SpecConfig == InitConfig /\ [][NextConfig]_vars

\* ------------------------------------------------------ race_with_shutdown
\* The passes of select! over its branches that are followed.
MaxPolls == 4

\* What the raced future returns: () of the start-up sleep, the Result of
\* the poller.
Outputs == {"unit", "Ok", "Err"}

Branches == {"signal", "future"}
OtherBranch(b) == IF b = "signal" THEN "future" ELSE "signal"

\* Whether a poll of the branch returns Poll::Ready.
BranchReady(b, sg, ft) == IF b = "signal" THEN sg # "pending" ELSE ft.ready

\* The branch taken without looking at what its poll returns.
FirstReadyUnpolled(start, sg, ft) == start

\* One pass of tokio::select!: the branches are polled in turn from a start
\* chosen at random, and the first one whose poll returns Ready is taken.
FirstReady(start, sg, ft) ==
    IF BranchReady(start, sg, ft) THEN start
    ELSE IF BranchReady(OtherBranch(start), sg, ft) THEN OtherBranch(start)
    ELSE "none"

\* The arm of the select! that runs for the branch taken.
RaceResult(b, sg, ft) ==
    IF b = "signal"
    THEN [result |-> IF sg = "ok" THEN "Shutdown" ELSE "Err", output |-> "none",
          resolved |-> "signal"]
    ELSE [result |-> "Completed", output |-> ft.output, resolved |-> "future"]

outsideRace == <<dbVars, envVars, mainVars, limVars, pollVars, histVars, ledgerVars,
                 limiterVars, connectVars, configVars, adminVars, urlVars>>

\* Ctrl+C arrives, or the listener cannot be registered.
SignalResolves ==
    /\ mode = "race"
    /\ race.result = "none"
    /\ sig = "pending"
    /\ sig' \in {"ok", "err"}
    /\ UNCHANGED <<outsideRace, fut, race, polls>>

\* The raced future has its output.
FutureResolves ==
    /\ mode = "race"
    /\ race.result = "none"
    /\ ~fut.ready
    /\ \E o \in Outputs : fut' = [ready |-> TRUE, output |-> o]
    /\ UNCHANGED <<outsideRace, sig, race, polls>>

\* The runtime polls race_with_shutdown(future): one pass of its select!.
SelectPoll ==
    /\ mode = "race"
    /\ race.result = "none"
    /\ polls < MaxPolls
    /\ polls' = polls + 1
    /\ \E start \in Branches :
         LET b == FirstReady(start, sig, fut)
         IN race' = IF b = "none" THEN race ELSE RaceResult(b, sig, fut)
    /\ UNCHANGED <<outsideRace, sig, fut>>

InitRace ==
    /\ mode = "race"
    /\ rate = 1
    /\ EngineAtRest
    /\ LedgerUnused
    /\ LimiterUnused
    /\ ConnectUnused
    /\ ConfigUnused
    /\ AdminUnused
    /\ UrlUnused
    /\ RaceUnused
    /\ tokens = 0
    /\ last_refill = 0

NextRace ==
    \/ SignalResolves
    \/ FutureResolves
    \/ SelectPoll

SpecRace == InitRace /\ [][NextRace]_vars

\* ------------------------------------ the front-end, run next to the engine
\* Configuration edits made while the engine runs.
MaxEdits == 2

SecondsPerDay == 86400

\* The feed subscribed while the engine runs, the links made and the link
\* removed.
NewFeed == "golang"
EditLinks == {<<4, 3>>}
EditUnlinks == {<<1, 3>>}
\* The values of days_to_keep: the least one the front-end accepts, and 2.
DaysToKeep == {1, 2}

\* DELETE FROM notified_posts WHERE first_seen_at < datetime('now', '-N days')
cleanup_old_posts(rows, days_to_keep, t) ==
    {r \in rows : ~(r.first_seen_at < t - (days_to_keep * SecondsPerDay))}

outsideAdmin == <<envVars, mainVars, limVars, pollVars, histVars, ledgerVars, limiterVars,
                  connectVars, configVars, raceVars, urlVars>>

\* create_subscription: INSERT INTO subscriptions (subreddit)
CreateSubscription ==
    /\ mode = "engine"
    /\ mainPc # "exited"
    /\ edits < MaxEdits
    /\ \A id \in DOMAIN subscriptions : subscriptions[id] # NewFeed
    /\ LET id == Cardinality(DOMAIN subscriptions) + 1
       IN subscriptions' = subscriptions @@ (id :> NewFeed)
    /\ edits' = edits + 1
    /\ UNCHANGED <<outsideAdmin, endpoints, links, notified_posts, kept_days>>

\* link_subscription_endpoint: INSERT OR IGNORE INTO subscription_endpoints
LinkSubscriptionEndpoint ==
    /\ mode = "engine"
    /\ mainPc # "exited"
    /\ edits < MaxEdits
    /\ \E l \in EditLinks :
         /\ l[1] \in DOMAIN subscriptions
         /\ l[2] \in DOMAIN endpoints
         /\ links' = links \cup {l}
    /\ edits' = edits + 1
    /\ UNCHANGED <<outsideAdmin, subscriptions, endpoints, notified_posts, kept_days>>

\* unlink_subscription_endpoint: DELETE FROM subscription_endpoints
UnlinkSubscriptionEndpoint ==
    /\ mode = "engine"
    /\ mainPc # "exited"
    /\ edits < MaxEdits
    /\ \E l \in EditUnlinks : links' = links \ {l}
    /\ edits' = edits + 1
    /\ UNCHANGED <<outsideAdmin, subscriptions, endpoints, notified_posts, kept_days>>

\* handle_truncate_mode: Enter with days > 0 runs cleanup_old_posts(days)
CleanupOldPosts ==
    /\ mode = "engine"
    /\ mainPc # "exited"
    /\ \E days \in DaysToKeep :
         /\ notified_posts' = cleanup_old_posts(notified_posts, days, now)
         /\ kept_days' = IF kept_days = 0 THEN days ELSE Min(kept_days, days)
    /\ UNCHANGED <<outsideAdmin, subscriptions, endpoints, links, edits>>

\* A day and a minute pass.
TickDay ==
    /\ mode = "engine"
    /\ ticks < MaxTicks
    /\ mainPc # "exited"
    /\ now' = now + SecondsPerDay + SecondsPerMinute
    /\ ticks' = ticks + 1
    /\ pool' = pool
    /\ UNCHANGED <<dbVars, mainVars, limVars, pollVars, histVars, sideVars>>

\* The engine starts with no feed to poll, or on the feed r/rust with the
\* endpoints 1 and 3.
InitAdmin ==
    /\ Init
    /\ mode = "engine"
    /\ links \in {{}, {<<1, 1>>, <<1, 3>>, <<2, 1>>}}
    /\ pool = {PostAbc, PostFut}

NextAdmin ==
    \/ Next
    \/ CreateSubscription
    \/ LinkSubscriptionEndpoint
    \/ UnlinkSubscriptionEndpoint
    \/ CleanupOldPosts
    \/ TickDay

SpecAdmin == InitAdmin /\ [][NextAdmin]_vars

\* ------------------------------------------ a feed linked while the engine runs
\* The engine polls r/rust (endpoints 1 and 3) and Reddit returns posts whose
\* subreddit field is "rust" or "Rust"; the subscription to "Rust" has no
\* endpoint until the front-end links it to endpoint 3.  No row of the ledger
\* is deleted.
CasedLinks == {<<3, 3>>}

\* link_subscription_endpoint: INSERT OR IGNORE INTO subscription_endpoints
LinkCasedFeed ==
    /\ mode = "engine"
    /\ mainPc # "exited"
    /\ edits < MaxEdits
    /\ \E l \in CasedLinks :
         /\ l[1] \in DOMAIN subscriptions
         /\ l[2] \in DOMAIN endpoints
         /\ links' = links \cup {l}
    /\ edits' = edits + 1
    /\ UNCHANGED <<outsideAdmin, subscriptions, endpoints, notified_posts, kept_days>>

InitRelink ==
    /\ Init
    /\ mode = "engine"
    /\ links \in {{}, {<<1, 1>>, <<1, 3>>, <<2, 1>>}}
    /\ pool = {PostAbc, PostAbcOfRust}

NextRelink ==
    \/ Next
    \/ LinkCasedFeed

SpecRelink == InitRelink /\ [][NextRelink]_vars

\* ------------------------------------------- the loop with a running clock
\* poll_combined_subreddits_loop called on the 101 feeds (two batches), every
\* await of the loop completing and time passing without bound.  The clock is
\* kept relative to the current instant: when a minute passes the Instants
\* the limiter holds move a minute into the past.  An elapsed time of
\* max_tokens * refill_rate or more fills the bucket whatever its length, so
\* last_refill is not moved further back than that; a sleep that is over
\* stays over.
Max(a, b) == IF a >= b THEN a ELSE b

TimePasses ==
    /\ pc \notin {"returned", "cancelled"}
    /\ \E d \in TickSteps :
         /\ last_refill' = Max(last_refill - Secs(d),
                               Instant(now) - (MaxTokens(rate) * RefillRate(rate)))
         /\ wake_at' = IF wake_at > Instant(now) THEN wake_at - Secs(d) ELSE wake_at
    /\ UNCHANGED <<dbVars, envVars, mainVars, tokens, histVars>>
    /\ UNCHANGED <<pc, subreddits, batches, bi, mappings, listing, ii, unique_eps, ei>>
    /\ UNCHANGED sideVars

InitLive ==
    /\ Init
    /\ mode = "direct"
    /\ subreddits = ManyFeeds

NextLive ==
    \/ PollerEntry
    \/ FetchMappings
    \/ Acquire
    \/ Wake
    \/ FetchBatch
    \/ ProcessItem
    \/ Send
    \/ TimePasses

\* Every await of the loop returns (weak fairness of each step of the loop)
\* and time advances.
SpecLive ==
    /\ InitLive
    /\ [][NextLive]_vars
    /\ WF_vars(PollerEntry)
    /\ WF_vars(FetchMappings)
    /\ WF_vars(Acquire)
    /\ WF_vars(Wake)
    /\ WF_vars(FetchBatch)
    /\ WF_vars(ProcessItem)
    /\ WF_vars(Send)
    /\ WF_vars(TimePasses)

\* ------------------------------------------------- the partition of a list
\* poll_combined_subreddits_loop called on a list of 0..MaxFeeds feeds, up to
\* the partition it makes before the loop.
MaxFeeds == 201

FeedList(n) == [i \in 1..n |-> IF i = 1 THEN "rust" ELSE "sub" \o ToString(i)]

InitChunks ==
    /\ mode = "direct"
    /\ rate = 1
    /\ subscriptions = Subscriptions0
    /\ endpoints = Endpoints0
    /\ links = DirectLinks
    /\ notified_posts = {}
    /\ now = T0
    /\ ticks = 0
    /\ pool = {}
    /\ exit = "none"
    /\ mainPc = "direct"
    /\ pc = "entry"
    /\ \E n \in 0..MaxFeeds : subreddits = FeedList(n)
    /\ tokens = 1
    /\ last_refill = Instant(now)
    /\ batches = <<>>
    /\ bi = 0
    /\ mappings = <<>>
    /\ listing = <<>>
    /\ ii = 0
    /\ unique_eps = <<>>
    /\ ei = 0
    /\ wake_at = 0
    /\ sends = EmptyBag
    /\ outstanding = 0
    /\ lastEv = "none"
    /\ item = NoPost
    /\ builds = <<>>
    /\ tried = <<>>
    /\ LedgerUnused
    /\ LimiterUnused
    /\ ConnectUnused
    /\ ConfigUnused
    /\ RaceUnused
    /\ AdminUnused
    /\ UrlUnused

NextChunks == PollerEntry

SpecChunks == InitChunks /\ [][NextChunks]_vars

\* ------------------------------------- acquire(), one caller, a running clock
\* One task calls acquire() again and again, up to MaxCalls calls, on a limiter
\* of capacity 1 or 2 whose refill interval is half a millisecond, 1 ms or
\* 1.5 ms.  The clock is kept relative to the current instant: when a clock
\* unit passes, last_refill and the wake-up of a sleeping call move a unit
\* into the past.  An elapsed time whose milliseconds are max_tokens refill
\* intervals or more fills the bucket whatever its length, so last_refill is
\* not moved further back than that; a sleep that is over stays over.
SubMilli == UnitsPerMilli \div 2
AloneRefillRates == {SubMilli} \cup RefillRates

\* The elapsed time beyond which a refill fills the bucket.
FillsBucket(mt, rr) == mt * (rr + UnitsPerMilli)

AcquireCallAlone ==
    /\ mode = "acquire"
    /\ acq[1].pc = "idle"
    /\ granted < MaxCalls
    /\ acq' = [acq EXCEPT ![1] = [pc |-> "lock", fresh |-> FALSE,
                                  slept |-> FALSE, wake_at |-> 0]]
    /\ UNCHANGED <<outsideLimiter, limVars, clock, state_lock, granted, added, acq_log>>

ClockPasses ==
    /\ mode = "acquire"
    /\ last_refill' = Max(last_refill - 1, clock - FillsBucket(max_tokens, refill_rate))
    /\ acq' = [c \in Tasks |->
                 IF acq[c].wake_at > clock
                 THEN [acq[c] EXCEPT !.wake_at = @ - 1] ELSE acq[c]]
    /\ UNCHANGED <<outsideLimiter, tokens, clock, state_lock, granted, added, acq_log>>

InitAcquire ==
    /\ mode = "acquire"
    /\ rate = 1
    /\ EngineAtRest
    /\ LedgerUnused
    /\ ConnectUnused
    /\ ConfigUnused
    /\ RaceUnused
    /\ AdminUnused
    /\ UrlUnused
    /\ max_tokens \in Capacities
    /\ refill_rate \in AloneRefillRates
    /\ tokens = 1
    /\ last_refill = 0
    /\ clock = 0
    /\ acq = [c \in Tasks |-> IdleTask]
    /\ state_lock = 0
    /\ granted = 0
    /\ added = 0
    /\ acq_log = <<>>

NextAcquire ==
    \/ AcquireCallAlone
    \/ AcquireLock
    \/ AcquireRefill
    \/ AcquireCheck
    \/ AcquireConsume
    \/ AcquireWake
    \/ ClockPasses

\* Every step of the call is taken when it can be (the lock is free, the
\* sleep is over) and time advances.
SpecAcquire ==
    /\ InitAcquire
    /\ [][NextAcquire]_vars
    /\ WF_vars(AcquireLock)
    /\ WF_vars(AcquireRefill)
    /\ WF_vars(AcquireCheck)
    /\ WF_vars(AcquireConsume)
    /\ WF_vars(AcquireWake)
    /\ WF_vars(ClockPasses)

\* ------------------------------------------------------ the URL of a post
\* let reddit_base = "https://www.reddit.com";
reddit_base == "https://www.reddit.com"

Some(text) == [some |-> TRUE, value |-> text]

\* The posts a URL is built for: permalink and url are Option<String>.
Permalinks == {NoOption, Some(""), Some("/r/rust/comments/abc/title/"), Some("/x")}
ExternalUrls == {NoOption, Some(""), Some("https://example.com/a"), Some("/x")}
UrlFeeds == {"rust", "Rust"}
UrlIds == {"abc", "fut", "1"}

\* The external url is preferred to the permalink.
PostUrlPrefersExternal(base, post) ==
    IF post.url.some THEN post.url.value
    ELSE IF post.permalink.some THEN base \o post.permalink.value
    ELSE base \o "/r/" \o post.subreddit \o "/comments/" \o post.id

\* post.permalink.as_ref().map(|p| format!("{}{}", reddit_base, p))
\*     .or(post.url.clone())
\*     .unwrap_or_else(|| format!("{}/r/{}/comments/{}", reddit_base, subreddit, post.id))
PostUrl(base, post) ==
    LET mapped == IF post.permalink.some
                  THEN Some(base \o post.permalink.value) ELSE NoOption
        ored == IF mapped.some THEN mapped ELSE post.url
    IN IF ored.some THEN ored.value
       ELSE base \o "/r/" \o post.subreddit \o "/comments/" \o post.id

\* let url = ...
BuildUrl ==
    /\ mode = "url"
    /\ url = NoOption
    /\ url' = [some |-> TRUE, value |-> PostUrl(reddit_base, url_post)]
    /\ UNCHANGED <<dbVars, envVars, mainVars, limVars, pollVars, histVars>>
    /\ UNCHANGED <<ledgerVars, limiterVars, connectVars, configVars, raceVars, adminVars>>
    /\ UNCHANGED url_post

InitUrl ==
    /\ mode = "url"
    /\ rate = 1
    /\ EngineAtRest
    /\ LedgerUnused
    /\ LimiterUnused
    /\ ConnectUnused
    /\ ConfigUnused
    /\ RaceUnused
    /\ AdminUnused
    /\ tokens = 0
    /\ last_refill = 0
    /\ url_post \in [permalink : Permalinks, url : ExternalUrls,
                     subreddit : UrlFeeds, id : UrlIds]
    /\ url = NoOption

NextUrl == BuildUrl

SpecUrl == InitUrl /\ [][NextUrl]_vars

TypeOK ==
    /\ pc \in {"idle", "entry", "mapping", "acquire", "sleep", "fetch", "item",
               "send", "returned", "cancelled"}
    /\ tokens \in 0..max_tokens
    /\ state_lock \in {0} \cup Tasks
    /\ \A c \in Tasks : acq[c].pc \in {"idle", "lock", "refill", "check", "consume", "sleep",
                                       "panicked"}
    /\ outstanding \in 0..1
    /\ service \in {"none", "sqlite", "mock"}
    /\ posts_lock \in {0} \cup Callers
    /\ \A c \in Callers : calls[c].pc \in {"idle", "called", "locked", "push"}
    /\ Len(log) <= MaxCalls

\* =================================================================== claims
\* Helpers of the claims, computed from the state alone.
HoursToSeconds(h) == h * 60 * 60
EntryIds(entry) == {entry[k].id : k \in 1..Len(entry)}
BuildableIds(entry) == {entry[k].id : k \in {j \in 1..Len(entry) : build_notifier(entry[j])}}
TriedIds == {tried[k].id : k \in 1..Len(tried)}
\* The item ProcessItem took last has been dealt with to its end.
ItemFinished == item # NoPost /\ pc \in {"item", "acquire", "mapping"}
\* The position after the item at index ii: the next item, or the next batch.
AtNextItem ==
    IF ii < Len(listing)
    THEN pc' = "item" /\ ii' = ii + 1 /\ listing' = listing /\ bi' = bi
    ELSE IF bi < Len(batches)
    THEN pc' = "acquire" /\ bi' = bi + 1
    ELSE pc' = "mapping"

\* C1: whatever fails and however often a post is returned, no endpoint id
\* receives more than one send call for the same (feed, item id) pair (no
\* ledger row is deleted by this specification).
C1_AtMostOneSendPerEndpoint ==
    \A k \in BagToSet(sends) : CopiesIn(k, sends) <= 1

\* A post that was sent is returned again and found in the ledger.
C1_Witness ==
    /\ lastEv = "dup"
    /\ \E k \in BagToSet(sends) : k[1] = item.subreddit /\ k[2] = item.id

\* C2: without failures (the store answers, every notifier of the entry
\* builds, every send succeeds) a post inside the window whose feed has a
\* mapping entry is sent exactly once to each distinct endpoint of the entry
\* when it is first returned, and a post found in the ledger causes no build
\* and no send.
C2_SentOnceThenNever ==
    /\ ( /\ ItemFinished
         /\ lastEv \in {"new", "send_ok", "send_err"}
         /\ item.subreddit \in DOMAIN mappings
         /\ BuildableIds(mappings[item.subreddit]) = EntryIds(mappings[item.subreddit])
         /\ \A k \in 1..Len(tried) : tried[k].ok )
       => /\ TriedIds = EntryIds(mappings[item.subreddit])
          /\ Len(tried) = Cardinality(EntryIds(mappings[item.subreddit]))
          /\ \A e \in EntryIds(mappings[item.subreddit]) :
               CopiesIn(<<item.subreddit, item.id, e>>, sends) = 1
    /\ (item # NoPost /\ lastEv = "dup")
       => /\ pc # "send"
          /\ builds = <<>>
          /\ tried = <<>>
          /\ \A k \in BagToSet(sends) : CopiesIn(k, sends) <= 1

\* A new post was sent to both endpoints of an entry that lists one of them twice.
C2_Witness ==
    /\ ItemFinished
    /\ lastEv = "send_ok"
    /\ Len(mappings[item.subreddit]) = 3
    /\ Len(tried) = 2
    /\ \A k \in 1..Len(tried) : tried[k].ok

\* Calls k and k + 1 of the log are two calls in a row for one pair: call k
\* began after call k - 1 had returned, call k + 1 after call k had, and both
\* returned a bool.
InARow(k) ==
    /\ k >= 1 /\ k + 1 <= Len(log)
    /\ log[k].subreddit = log[k + 1].subreddit
    /\ log[k].post_id = log[k + 1].post_id
    /\ log[k].begun_at = k - 1
    /\ log[k + 1].begun_at = k
    /\ log[k].ok /\ log[k + 1].ok

\* Calls i < j of the log ran concurrently for one pair: call j began before
\* call i returned; both returned a bool.
Concurrent(i, j) ==
    /\ i < j
    /\ log[i].subreddit = log[j].subreddit
    /\ log[i].post_id = log[j].post_id
    /\ log[j].begun_at < i
    /\ log[i].ok /\ log[j].ok

\* C3 (as amended): for a pair that has no ledger row before the first call,
\* two calls of record_if_new in a row return true, then false, and exactly
\* one row for the pair exists afterwards (SQLite and mock implementation).
C3_TrueThenFalseOnFreshPair ==
    LET k == Len(log) - 1
    IN (InARow(k) /\ ~log[k].pre)
         => /\ log[k].is_new
            /\ ~log[k + 1].is_new
            /\ RowCount(log[k].subreddit, log[k].post_id) = 1

\* Two calls in a row for a fresh pair have returned.
C3_Witness ==
    /\ InARow(Len(log) - 1)
    /\ ~log[Len(log) - 1].pre
    /\ log[Len(log) - 1].is_new
    /\ ~log[Len(log)].is_new

\* C3 as stated: for every pair, whatever the ledger holds, two calls in a
\* row return true, then false, and exactly one row exists afterwards.
C3_TrueThenFalseOnEveryPair ==
    LET k == Len(log) - 1
    IN InARow(k)
         => /\ log[k].is_new
            /\ ~log[k + 1].is_new
            /\ RowCount(log[k].subreddit, log[k].post_id) = 1

\* C4: of two calls of record_if_new that run concurrently for a pair without
\* a ledger row when either of them begins, exactly one returns true, and the
\* ledger holds exactly one row for the pair (SQLite and mock implementation).
C4_ConcurrentCallsOneWinner ==
    \A i, j \in 1..Len(log) :
        (Concurrent(i, j) /\ ~log[i].pre /\ ~log[j].pre)
          => /\ log[i].is_new # log[j].is_new
             /\ RowCount(log[i].subreddit, log[i].post_id) = 1

\* Two tasks were inside the mock's record_if_new for a fresh pair at once
\* and both have returned.
C4_Witness ==
    /\ service = "mock"
    /\ \E i, j \in 1..Len(log) :
         /\ Concurrent(i, j)
         /\ ~log[i].pre /\ ~log[j].pre
         /\ log[i].caller # log[j].caller

\* C5: when record_if_new returns an error for an item, the step builds no
\* notifier, issues no send, leaves the ledger alone and goes on to the next
\* item of the batch.
C5_FailClosed ==
    [][(ProcessItem /\ lastEv' = "dedup_err")
         => /\ builds' = <<>>
            /\ tried' = <<>>
            /\ sends' = sends
            /\ notified_posts' = notified_posts
            /\ AtNextItem]_vars

\* The store failed on a post whose feed has endpoints, and the next item is up.
C5_Witness ==
    /\ lastEv = "dedup_err"
    /\ item.subreddit \in DOMAIN mappings
    /\ pc = "item"
    /\ ii = 2

\* C6: an item is skipped exactly when |now - created_utc| exceeds 24 hours;
\* every other item is passed to record_if_new, whatever the ledger holds.
C6_WindowTest ==
    [][ProcessItem
         => LET d == now - listing[ii].created_utc
            IN /\ (lastEv' = "stale") <=> (Abs(d) > HoursToSeconds(24))
               /\ (lastEv' \in {"new", "dup", "dedup_err"}) <=> (Abs(d) <= HoursToSeconds(24))
               /\ (lastEv' = "stale") => (notified_posts' = notified_posts /\ sends' = sends)]_vars

\* A post created 24h01m ago was skipped.
C6_Witness ==
    /\ lastEv = "stale"
    /\ now - item.created_utc = HoursToSeconds(24) + 60

\* C7: for a new item with resolved endpoints, after every send and every
\* build, failed or not, either the send to an endpoint not yet tried is up
\* next, or every endpoint of the entry whose notifier builds has had its
\* send call and the loop is at the next item.
C7_FanOutIsolation ==
    [][((ProcessItem /\ lastEv' = "new" /\ listing[ii].subreddit \in DOMAIN mappings) \/ Send)
         => LET entry == mappings[listing[ii].subreddit]
                done == {tried'[k].id : k \in 1..Len(tried')}
            IN IF pc' = "send"
               THEN /\ listing' = listing /\ ii' = ii
                    /\ unique_eps'[ei'].id \in BuildableIds(entry) \ done
               ELSE /\ done = BuildableIds(entry)
                    /\ EntryIds(entry) = {builds'[k] : k \in 1..Len(builds')}
                    /\ AtNextItem]_vars

\* The send to endpoint 1 failed, the notifier of endpoint 2 did not build,
\* and the send to endpoint 3 is up.
C7_Witness ==
    /\ pc = "send"
    /\ lastEv = "send_err"
    /\ builds = <<1, 2, 3>>
    /\ unique_eps[ei].id = 3

\* The position after batch bi: the next batch, or the next loop iteration.
AtNextBatch ==
    IF bi < Len(batches)
    THEN pc' = "acquire" /\ bi' = bi + 1
    ELSE pc' = "mapping"

\* A notifier failed to build in this step.
BuildFailedInStep ==
    \E k \in 1..Len(builds') :
        /\ k > (IF pc = "send" THEN Len(builds) ELSE 0)
        /\ ~build_notifier(EndpointRowOf(endpoints, builds'[k]))

\* C8: no failure of a mapping fetch, a batch fetch (request, status, parse),
\* a dedup insert, a notifier build or a send makes the loop return or ends
\* main(): a failed mapping fetch is followed by the mapping fetch of the next
\* iteration, a failed batch fetch by the next batch (its acquire) or the next
\* iteration, a failed dedup insert by the next item, and a failed build or
\* send by the next endpoint or the next item.
C8_FailuresKeepLooping ==
    [][/\ (FetchMappings /\ lastEv' \in MappingFailed)
            => (pc' = "mapping" /\ mainPc' = mainPc /\ exit' = exit)
       /\ (FetchBatch /\ lastEv' \in {"fetch_http_err", "fetch_status", "fetch_parse"})
            => (AtNextBatch /\ mainPc' = mainPc /\ exit' = exit)
       /\ (ProcessItem /\ lastEv' = "dedup_err")
            => (AtNextItem /\ mainPc' = mainPc /\ exit' = exit)
       /\ ((ProcessItem \/ Send) /\ (BuildFailedInStep \/ lastEv' = "send_err"))
            => /\ \/ pc' = "send" /\ ii' = ii /\ listing' = listing
                  \/ AtNextItem
               /\ mainPc' = mainPc /\ exit' = exit]_vars

\* The request of the first batch failed to parse and the second batch is up.
C8_Witness ==
    /\ lastEv = "fetch_parse"
    /\ pc = "acquire"
    /\ bi = 2

C10_OneTokenPerFetch ==
    [][/\ FetchBatch => (outstanding = 1 /\ outstanding' = 0)
       /\ (Acquire /\ pc' = "fetch")
            => /\ outstanding = 0
               /\ tokens' + 1 <= MaxTokens(rate)
               /\ LET elapsed_ms == (now * 1000) - (last_refill \div UnitsPerMilli)
                      interval_ms == (SecondsPerMinute * 1000) \div rate
                      refilled == IF elapsed_ms >= interval_ms
                                  THEN Min(tokens + (elapsed_ms \div interval_ms),
                                           MaxTokens(rate))
                                  ELSE tokens
                  IN tokens' + 1 = refilled
       /\ outstanding' \in {0, 1}]_vars

\* The batch of 100 feeds was fetched on one token and the second batch is up.
C10_Witness ==
    /\ bi = 2
    /\ pc = "acquire"
    /\ Len(batches[1]) = 100
    /\ outstanding = 0

\* C11 (as stated): on a limiter just created the first acquire() to return
\* has not slept, and an acquire() called at once, as the limiter was created,
\* that returns second does not return before a full refill_rate has elapsed.
C11_SecondWaitsFullInterval ==
    /\ Len(acq_log) >= 1 => ~acq_log[1].slept
    /\ (Len(acq_log) >= 2 /\ acq_log[2].fresh) => acq_log[2].ret >= refill_rate

\* C11, what the code keeps: the second such call does not return before
\* refill_rate cut to whole milliseconds has elapsed.
C11_SecondWaitsWholeMillis ==
    /\ Len(acq_log) >= 1 => ~acq_log[1].slept
    /\ (Len(acq_log) >= 2 /\ acq_log[2].fresh)
         => acq_log[2].ret >= Millis(AsMillis(refill_rate))

\* Two calls made as the limiter was created have returned, the second after
\* sleeping.
C11_Witness ==
    /\ Len(acq_log) = 2
    /\ acq_log[1].fresh /\ acq_log[2].fresh
    /\ acq_log[1].ret = 0
    /\ acq_log[2].ret > 0

\* C12 (as stated): the acquire() calls that have returned by time t after
\* the creation of the limiter never exceed 1 + floor(t / refill_rate).
C12_ReturnsWithinBudget ==
    granted <= 1 + (clock \div refill_rate)

\* C12, what the code keeps: the bound with the elapsed time and refill_rate
\* both cut to whole milliseconds.
C12_ReturnsWithinMillisBudget ==
    granted <= 1 + (AsMillis(clock) \div AsMillis(refill_rate))

\* After an idle period a third call has returned.
C12_Witness ==
    /\ granted >= 3
    /\ max_tokens = 2

\* C13: with several tasks inside acquire() at once, refill, check and
\* consume of one call run with no step of another call's in between: at most
\* one task is between lock and unlock and it is the holder of the lock, the
\* token count never goes below 0, and every call that returned took a token
\* of its own (returned calls + tokens left = the initial token + tokens
\* added).
C13_AcquireIsAtomic ==
    /\ Cardinality({c \in Tasks : acq[c].pc \in {"refill", "check", "consume"}}) <= 1
    /\ \A c \in Tasks : acq[c].pc \in {"refill", "check", "consume"} => state_lock = c
    /\ tokens >= 0
    /\ granted + tokens = 1 + added

\* One task is about to consume the last token while the other waits for the
\* lock.
C13_Witness ==
    \E c, d \in Tasks :
        /\ c # d
        /\ acq[c].pc = "consume"
        /\ acq[d].pc = "lock"
        /\ tokens = 1

\* ---------------------------------------------------------------------------
\* C14 (as stated): connect_with_retry makes at most max_retries connection
\* attempts, makes no attempt after a successful one and returns the pool
\* there, and returns an error exactly when max_retries attempts have all
\* failed.
C14_AtMostMaxRetriesAttempts ==
    /\ Len(connects) <= retry_config.max_retries
    /\ \A i \in 1..Len(connects) : connects[i] => i = Len(connects)
    /\ (connects # <<>> /\ connects[Len(connects)]) => connect_pc = "ok"
    /\ connect_pc \in {"ok", "err"} =>
         (connect_pc = "err" <=>
            /\ Len(connects) = retry_config.max_retries
            /\ \A i \in 1..Len(connects) : ~connects[i])

\* C14, what the code keeps: the same with max_retries read as at least 1,
\* the first attempt being made before max_retries is looked at.
C14_AtMostMaxRetriesOrOneAttempt ==
    LET limit == IF retry_config.max_retries = 0 THEN 1 ELSE retry_config.max_retries
    IN /\ Len(connects) <= limit
       /\ \A i \in 1..Len(connects) : connects[i] => i = Len(connects)
       /\ (connects # <<>> /\ connects[Len(connects)]) => connect_pc = "ok"
       /\ connect_pc \in {"ok", "err"} =>
            (connect_pc = "err" <=>
               /\ Len(connects) = limit
               /\ \A i \in 1..Len(connects) : ~connects[i])

\* A call with 3 attempts allowed that failed twice and then connected.
C14_Witness ==
    /\ retry_config.max_retries = 3
    /\ connects = <<FALSE, FALSE, TRUE>>
    /\ connect_pc = "ok"

C20_RateCappedAtFifty ==
    app_config.result = "ok" =>
        LET v == env.REDDIT_RATE_LIMIT_PER_MINUTE
            parsed == v # Unset /\ ParseU32(v).ok
        IN /\ app_config.rate_limit_per_minute <= 50
           /\ (parsed /\ ParseU32(v).value > 50) => app_config.rate_limit_per_minute = 50
           /\ (parsed /\ ParseU32(v).value <= 50) =>
                 app_config.rate_limit_per_minute = ParseU32(v).value
           /\ ~parsed => app_config.rate_limit_per_minute = 20

\* REDDIT_RATE_LIMIT_PER_MINUTE=51 was read and 50 came out.
C20_Witness ==
    /\ app_config.result = "ok"
    /\ env.REDDIT_RATE_LIMIT_PER_MINUTE = <<"5", "1">>
    /\ app_config.rate_limit_per_minute = 50

RowFullySent(r) ==
    LET m == all_subreddit_endpoint_mappings(subscriptions, endpoints, links)
    IN r.subreddit \in DOMAIN m
         => \A e \in BuildableIds(m[r.subreddit]) :
              CopiesIn(<<r.subreddit, r.post_id, e>>, sends) >= 1

\* C17 (as stated): when the engine has stopped on the shutdown signal, every
\* item whose ledger row was inserted during the run has had a send call on
\* each endpoint resolved for it.
C17_StoppedWithEveryRowSent ==
    (mode = "engine" /\ exit = "shutdown") => \A r \in notified_posts : RowFullySent(r)

\* The engine stopped on the signal with a row in the ledger whose sends
\* were all made.
C17_Witness ==
    /\ mode = "engine"
    /\ exit = "shutdown"
    /\ notified_posts # {}
    /\ sends # EmptyBag
    /\ \A r \in notified_posts : RowFullySent(r)

\* ---------------------------------------------------------------------------
Feeds(list) == {list[k] : k \in 1..Len(list)}

\* The configuration was edited, and the mapping read at the top of the
\* current loop iteration is that of the configuration as it is now: the
\* iteration began after the last edit that changed it.
CycleAfterEdits ==
    /\ mode = "engine"
    /\ edits > 0
    /\ lastEv \notin MappingFailed
    /\ pc \in {"acquire", "sleep", "fetch", "item", "send"}
    /\ mappings = all_subreddit_endpoint_mappings(subscriptions, endpoints, links)

\* The endpoint the send is up for is an active endpoint linked to a
\* subscription of the feed of the item.
EndpointConfigured ==
    \E sid \in DOMAIN subscriptions :
        /\ subscriptions[sid] = listing[ii].subreddit
        /\ <<sid, unique_eps[ei].id>> \in links
        /\ endpoints[unique_eps[ei].id].active

\* C18 (as stated): in a loop iteration begun after the configuration was
\* edited, the feeds the poller fetches are the feeds of the edited
\* subscriptions (a feed subscribed since the engine started included), and
\* the endpoints it notifies are those of the edited links and endpoints.
C18_EditsTakeEffectNextCycle ==
    CycleAfterEdits
      => /\ Feeds(subreddits) = Feeds(unique_subreddits(subscriptions, endpoints, links))
         /\ pc = "send" => EndpointConfigured

\* C18, what the code keeps: in such an iteration the endpoints notified are
\* those of the edited links and endpoints.
C18_EndpointsFollowEdits ==
    (CycleAfterEdits /\ pc = "send") => EndpointConfigured

\* Endpoint 3 was unlinked from r/rust while the engine ran, and a post found
\* after that has been sent to endpoint 1 alone.
C18_Witness ==
    /\ CycleAfterEdits
    /\ <<1, 3>> \notin links
    /\ ItemFinished
    /\ lastEv = "send_ok"
    /\ TriedIds = {1}

\* ---------------------------------------------------------------------------
\* C19 (as stated): whatever cleanup_old_posts(days_to_keep) with
\* days_to_keep >= 1 deletes from the ledger, no endpoint receives a second
\* send call for an item it was notified of.
C19_CleanupNeverRenotifies ==
    kept_days >= 1 => \A k \in BagToSet(sends) : CopiesIn(k, sends) <= 1

\* C19, what the code keeps: the same for days_to_keep >= 2, the window of
\* the poller reaching 24 hours to either side of an item's date.
C19_TwoDaysNeverRenotify ==
    kept_days >= 2 => \A k \in BagToSet(sends) : CopiesIn(k, sends) <= 1

\* The row of a notified post was deleted by cleanup_old_posts(2), and the
\* post, returned again, was outside the window.
C19_Witness ==
    /\ kept_days = 2
    /\ notified_posts = {}
    /\ lastEv = "stale"
    /\ \E k \in BagToSet(sends) : k[1] = item.subreddit /\ k[2] = item.id

\* ---------------------------------------------------------------------------
\* C21: a mapping fetch that the store answers returns, under its feed,
\* every active endpoint linked to a subscription whose kind parses, and no
\* endpoint whose kind does not parse, whatever other rows the join holds.
C21_BadKindRowsAreSkipped ==
    [][(FetchMappings /\ lastEv' = "mapping_ok")
         => /\ \A sid \in DOMAIN subscriptions, eid \in DOMAIN endpoints :
                 ( /\ <<sid, eid>> \in links
                   /\ endpoints[eid].active
                   /\ endpoints[eid].kind \in {"discord", "pushover"} )
                   => /\ subscriptions[sid] \in DOMAIN mappings'
                      /\ eid \in EntryIds(mappings'[subscriptions[sid]])
            /\ \A f \in DOMAIN mappings' : \A k \in 1..Len(mappings'[f]) :
                 mappings'[f][k].kind \in {"discord", "pushover"}]_vars

\* The join held endpoint 5, whose kind is "bogus", under r/rust, and the
\* mapping read has the endpoints 2 and 3 for r/rust.
C21_Witness ==
    /\ lastEv = "mapping_ok"
    /\ <<2, 5>> \in links
    /\ "rust" \in DOMAIN mappings
    /\ EntryIds(mappings["rust"]) = {2, 3}

\* ---------------------------------------------------------------------------
\* C22: every endpoint of the mapping read for a cycle (SQLite and mock
\* implementation) has active = true, the send that is up is for such an
\* endpoint, and no send call was made on an inactive endpoint.
C22_OnlyActiveEndpoints ==
    /\ \A f \in DOMAIN mappings : \A k \in 1..Len(mappings[f]) : mappings[f][k].active
    /\ LET mock == MockAllMappings(subscriptions, endpoints, links)
       IN \A f \in DOMAIN mock : \A k \in 1..Len(mock[f]) : mock[f][k].active
    /\ pc = "send" => endpoints[unique_eps[ei].id].active
    /\ \A t \in BagToSet(sends) : endpoints[t[3]].active

\* The inactive endpoint 4 is linked to r/rust, and a post of r/rust has been
\* sent to the endpoints of its entry, endpoint 4 not among them.
C22_Witness ==
    /\ <<2, 4>> \in links
    /\ ~endpoints[4].active
    /\ ItemFinished
    /\ item.subreddit = "rust"
    /\ lastEv \in {"send_ok", "send_err"}
    /\ TriedIds # {}
    /\ 4 \notin TriedIds

\* ---------------------------------------------------------------------------
\* C23: the loop is at a batch (bi >= 1) only from a mapping fetch that
\* succeeded until the last batch of that iteration is done; acquire, its
\* sleep, fetch, dedup insert and send are steps at a batch and leave the
\* mapping of the iteration alone; every send goes to an endpoint listed for
\* the item's feed in that mapping; a failed mapping fetch consumes no token,
\* inserts no row, sends nothing and is followed by a new mapping fetch.
C23_StepsFollowMappingFetch ==
    [][/\ (Acquire \/ Wake \/ FetchBatch \/ ProcessItem \/ Send)
            => (bi >= 1 /\ mappings' = mappings)
       /\ (bi = 0 /\ bi' # 0)
            => /\ FetchMappings
               /\ lastEv' = "mapping_ok"
               /\ mappings' = all_subreddit_endpoint_mappings(subscriptions, endpoints, links)
       /\ (FetchMappings /\ lastEv' \in MappingFailed)
            => /\ pc' = "mapping"
               /\ bi' = 0
               /\ UNCHANGED <<sends, notified_posts, tokens, last_refill, outstanding>>
       /\ Send
            => /\ listing[ii].subreddit \in DOMAIN mappings
               /\ unique_eps[ei].id \in EntryIds(mappings[listing[ii].subreddit])
       /\ (sends' # sends \/ notified_posts' # notified_posts \/ tokens' < tokens)
            => bi >= 1
       /\ (pc' \in {"acquire", "sleep", "fetch", "item", "send"}) => bi' >= 1]_vars

\* An iteration sent a post, and the mapping fetch of a later iteration failed:
\* the loop is at the mapping fetch again.
C23_Witness ==
    /\ lastEv = "mapping_err"
    /\ pc = "mapping"
    /\ bi = 0
    /\ sends # EmptyBag

\* ---------------------------------------------------------------------------
\* C24: between two consecutive mapping fetches of the loop a token is
\* consumed: no mapping fetch is issued when the last thing the loop did was a
\* mapping fetch.
C24_TokenBetweenMappingFetches ==
    [][FetchMappings => lastEv \notin ({"mapping_ok"} \cup MappingFailed)]_vars

\* C24, as far as it holds: a mapping fetch that follows a successful mapping
\* fetch comes after a batch fetch of that iteration, hence after an acquire()
\* that returned; only a failed mapping fetch is followed by the next one with
\* no token consumed in between.
C24_TokenSinceSuccessfulMappingFetch ==
    [][FetchMappings => lastEv \notin {"mapping_ok", "acquired", "sleep"}]_vars

\* A mapping fetch failed after an iteration that consumed the only token:
\* the bucket is empty, no time has passed, and the next mapping fetch is up.
C24_Witness ==
    /\ lastEv = "mapping_err"
    /\ pc = "mapping"
    /\ tokens = 0
    /\ ticks = 0
    /\ Instant(now) = last_refill

\* ---------------------------------------------------------------------------
\* C25: with every await of the loop returning and time advancing, if from
\* some point on every mapping fetch succeeds, then every batch of the
\* partition is fetched again and again, whatever the outcomes of the batch
\* fetches, the dedup inserts, the notifier builds and the sends.
C25_EveryBatchFetchedForever ==
    (<>[][FetchMappings => lastEv' = "mapping_ok"]_vars)
        => \A b \in 1..Len(Chunks(ManyFeeds, MAX_SUBREDDITS_PER_BATCH)) :
                []<><<FetchBatch /\ bi = b>>_vars

\* The first batch is about to be fetched again, on a token that was refilled
\* while the loop slept, after a cycle that sent a post and a mapping fetch
\* that failed.
C25_Witness ==
    /\ pc = "fetch"
    /\ bi = 1
    /\ sends # EmptyBag
    /\ notified_posts # {}
    /\ Len(batches) = 2

\* ---------------------------------------------------------------------------
RECURSIVE Flatten(_)
Flatten(ss) == IF ss = <<>> THEN <<>> ELSE Head(ss) \o Flatten(Tail(ss))

CeilDiv(n, k) == (n + k - 1) \div k

\* C26: the partition made of a non-empty list of n feeds has ceil(n/100)
\* batches, each of them non-empty and of at most 100 feeds, and the batches
\* put one after the other in order are the list.
C26_PartitionOfTheList ==
    (pc = "mapping" /\ subreddits # <<>>)
        => /\ Len(batches) = CeilDiv(Len(subreddits), MAX_SUBREDDITS_PER_BATCH)
           /\ \A b \in 1..Len(batches) :
                /\ Len(batches[b]) >= 1
                /\ Len(batches[b]) <= MAX_SUBREDDITS_PER_BATCH
           /\ Flatten(batches) = subreddits

\* The list of 201 feeds was cut into batches of 100, 100 and 1 feeds.
C26_Witness ==
    /\ pc = "mapping"
    /\ Len(subreddits) = 2 * MAX_SUBREDDITS_PER_BATCH + 1
    /\ Len(batches) = 3
    /\ Len(batches[3]) = 1

\* ---------------------------------------------------------------------------
\* The ledger holds a row of the post.
HasRow(rows, post) ==
    \E r \in rows : r.subreddit = post.subreddit /\ r.post_id = post.id

\* C27: the loop moves from a batch to the next one of the partition only,
\* with every item of the response walked through and a single request
\* outstanding at most; it walks the items of a response in order; the sends
\* of an item begin in the step that inserted its ledger row, and the next
\* item (or batch) is up only when every endpoint of the item whose notifier
\* builds has had its send.
C27_BatchesItemsSendsInOrder ==
    [][/\ bi' # bi
            => /\ bi' = bi + 1 \/ (bi = Len(batches) /\ bi' = 0)
               /\ ii = Len(listing)
               /\ listing' = <<>> /\ ii' = 0
               /\ outstanding' = 0
       /\ FetchBatch
            => (listing = <<>> /\ ii = 0 /\ outstanding = 1 /\ batches[bi] # <<>>)
       /\ ii' # ii
            => \/ ii' = ii + 1 /\ pc' = "item" /\ bi' = bi
                    /\ (ii >= 1 => listing' = listing)
               \/ ii' = 0 /\ ii = Len(listing)
       /\ ProcessItem
            => /\ item' = listing[ii]
               /\ item # NoPost => BuildableIds(unique_eps) \subseteq TriedIds
       /\ (pc # "send" /\ pc' = "send")
            => /\ ProcessItem
               /\ lastEv' = "new"
               /\ ~HasRow(notified_posts, listing[ii])
               /\ HasRow(notified_posts', listing[ii])
       /\ Send
            => /\ item = listing[ii]
               /\ HasRow(notified_posts, item)
               /\ ii' # ii => BuildableIds(unique_eps) \subseteq TriedIds'
       /\ outstanding' \in {0, 1}]_vars

\* The second item of a response is at its send, after the sends of the first.
C27_Witness ==
    /\ pc = "send"
    /\ ii = 2
    /\ listing[1] # listing[2]
    /\ lastEv = "new"
    /\ \E t \in BagToSet(sends) : t[1] = listing[1].subreddit /\ t[2] = listing[1].id
    /\ HasRow(notified_posts, listing[1])
    /\ HasRow(notified_posts, listing[2])

\* ---------------------------------------------------------------------------
\* C28: in an iteration whose mapping fetch succeeded every batch is fetched
\* once: the loop comes to the acquire of a batch only by moving to a batch it
\* has not been at in this iteration, leaves a batch only after its fetch, and
\* ends the iteration only from the last batch.  A fetch that failed (request,
\* status or body) inserts no row and sends nothing, leaves no item to
\* process and is followed by the next batch or the next iteration.
C28_EachBatchFetchedOnce ==
    [][/\ (pc' = "acquire" /\ pc \notin {"acquire", "sleep"})
            => /\ bi' = bi + 1
               /\ bi' \in 1..Len(batches)
       /\ (pc' = "fetch" /\ pc # "fetch") => (Acquire /\ bi' = bi)
       /\ FetchBatch => (pc' # "fetch" /\ pc' # "sleep")
       /\ (bi >= 1 /\ bi' # bi) => pc \in {"fetch", "item", "send"}
       /\ (bi >= 1 /\ bi' = 0) => bi = Len(batches)
       /\ (FetchBatch /\ lastEv' \in {"fetch_http_err", "fetch_status", "fetch_parse"})
            => /\ notified_posts' = notified_posts
               /\ sends' = sends
               /\ listing' = <<>>
               /\ IF bi < Len(batches)
                  THEN pc' = "acquire" /\ bi' = bi + 1
                  ELSE pc' = "mapping" /\ bi' = 0]_vars

\* The request of the first batch failed: nothing was inserted or sent, no
\* item is left to process and the second batch is up.
C28_Witness ==
    /\ lastEv = "fetch_http_err"
    /\ pc = "acquire"
    /\ bi = 2
    /\ listing = <<>>
    /\ notified_posts = {}
    /\ sends = EmptyBag

\* ---------------------------------------------------------------------------
\* The positions of an entry at which an endpoint id occurs for the first time.
FirstPositions(entry) ==
    {k \in 1..Len(entry) : \A j \in 1..(k - 1) : entry[j].id # entry[k].id}

\* C29: for a new item of a feed that has a mapping entry, the notifiers built
\* so far are those of the first endpoint ids of the entry, each id once, in
\* the order of their first occurrence in the entry; when the item is done a
\* notifier has been built for every id of the entry.
C29_OneBuildPerDistinctEndpoint ==
    ( /\ item # NoPost
      /\ lastEv \in {"new", "send_ok", "send_err"}
      /\ item.subreddit \in DOMAIN mappings )
        => LET entry == mappings[item.subreddit]
               first == FirstPositions(entry)
           IN /\ Len(builds) <= Cardinality(first)
              /\ \A i \in 1..Len(builds) :
                    \E k \in first :
                        /\ Cardinality({j \in first : j <= k}) = i
                        /\ builds[i] = entry[k].id
              /\ ItemFinished => Len(builds) = Cardinality(first)

\* The entry of r/rust lists endpoint 1 twice (1, 2, 3, 1): the post got one
\* notifier built for each of 1, 2 and 3, in this order.
C29_Witness ==
    /\ ItemFinished
    /\ lastEv \in {"send_ok", "send_err"}
    /\ item.subreddit = "rust"
    /\ "rust" \in DOMAIN mappings
    /\ Len(mappings["rust"]) = 4
    /\ mappings["rust"][1].id = mappings["rust"][4].id
    /\ builds = <<1, 2, 3>>

\* ---------------------------------------------------------------------------
\* The post was new, its feed is not a key of the mapping of the cycle, and
\* the loop has gone past it.
SkippedForNoEntry(post) ==
    /\ item = post
    /\ lastEv = "new"
    /\ pc # "send"
    /\ post.subreddit \notin DOMAIN mappings
    /\ HasRow(notified_posts, post)

NeverSent(post) ==
    /\ \A t \in BagToSet(sends) : ~(t[1] = post.subreddit /\ t[2] = post.id)
    /\ pc = "send" => listing[ii] # post

\* C30: a new item whose subreddit field is not a key of the mapping of the
\* cycle (the comparison is exact: "Rust" is not "rust") is sent to no
\* endpoint, and as its row is in the ledger by then it is sent in no later
\* cycle either, whatever entry its feed gets in a later mapping.
C30_UnmappedItemIsNeverSent ==
    \A post \in {PostAbc, PostAbcOfRust} :
        [](SkippedForNoEntry(post) => []NeverSent(post))

\* The post of r/Rust was skipped while only "rust" was a key of the mapping;
\* the feed was linked to endpoint 3 since, the mapping of this cycle has the
\* entry, the post came again and was found in the ledger: nothing was sent.
C30_Witness ==
    /\ item = PostAbcOfRust
    /\ lastEv = "dup"
    /\ "Rust" \in DOMAIN mappings
    /\ "rust" \in DOMAIN mappings
    /\ NeverSent(PostAbcOfRust)
    /\ \E t \in BagToSet(sends) : t[1] = "rust"

\* ---------------------------------------------------------------------------
\* C31: processing an item dated more than 24 hours from now, in the past or
\* in the future, calls neither record_if_new nor a notifier: the ledger and
\* the sends are as before and the loop is at the next item.  The item is
\* eligible later: when it is processed inside the window with no row of it
\* in the ledger and the store answers, it is new and its row is inserted.
C31_StaleItemLeavesNoTrace ==
    [][ProcessItem
         => LET post == listing[ii]
                stale == Abs(now - post.created_utc) > HoursToSeconds(24)
            IN /\ stale
                    => /\ notified_posts' = notified_posts
                       /\ sends' = sends
                       /\ builds' = <<>>
                       /\ pc' # "send"
                       /\ lastEv' = "stale"
               /\ (~stale /\ ~HasRow(notified_posts, post) /\ lastEv' # "dedup_err")
                    => /\ lastEv' = "new"
                       /\ HasRow(notified_posts', post)]_vars

\* The post dated 24h01m ahead was passed over: the ledger has no row of it
\* and nothing was sent for it.
C31_Witness ==
    /\ item = PostFut
    /\ lastEv = "stale"
    /\ item.created_utc - now = HoursToSeconds(24) + 60
    /\ ~HasRow(notified_posts, PostFut)
    /\ NeverSent(PostFut)
    /\ pc # "send"

\* ---------------------------------------------------------------------------
\* C32: the URL built for a post is the base URL followed by the permalink
\* when the post has a permalink, else the post's external url when it has
\* one, else base/r/{subreddit}/comments/{id}.
C32_UrlOfAPost ==
    (mode = "url" /\ url.some)
        => /\ url_post.permalink.some
                => url.value = "https://www.reddit.com" \o url_post.permalink.value
           /\ (~url_post.permalink.some /\ url_post.url.some)
                => url.value = url_post.url.value
           /\ (~url_post.permalink.some /\ ~url_post.url.some)
                => url.value = "https://www.reddit.com/r/" \o url_post.subreddit
                         \o "/comments/" \o url_post.id

\* A post with a permalink and an external url got the permalink's URL.
C32_Witness ==
    /\ mode = "url"
    /\ url_post.permalink = Some("/r/rust/comments/abc/title/")
    /\ url_post.url = Some("https://example.com/a")
    /\ url = Some("https://www.reddit.com/r/rust/comments/abc/title/")

\* ---------------------------------------------------------------------------
\* C33: the bucket of a limiter created with max_tokens >= 1 holds between 0
\* and max_tokens tokens in every state, whatever time passes between the
\* calls of acquire().
C33_TokensWithinCapacity ==
    (mode = "limiter" /\ max_tokens >= 1)
        => (0 <= tokens /\ tokens <= max_tokens)

\* No acquire() has returned yet and two refill intervals or more had passed
\* when the first refill ran: the bucket was filled to max_tokens, not beyond.
C33_Witness ==
    /\ mode = "limiter"
    /\ granted = 0
    /\ last_refill = clock
    /\ AsMillis(clock) >= 2 * AsMillis(refill_rate)
    /\ tokens = max_tokens
    /\ max_tokens = 1

\* ---------------------------------------------------------------------------
\* C34: on a limiter with max_tokens >= 1 and a positive refill interval,
\* every acquire() of a single caller returns as time advances.
C34_AcquireReturns ==
    (mode = "acquire" /\ max_tokens >= 1 /\ refill_rate > 0)
        => ((acq[1].pc # "idle") ~> (acq[1].pc = "idle"))

\* C34, as far as it holds: when the refill interval is a millisecond or more,
\* every acquire() of a single caller returns as time advances.
C34_AcquireReturnsFromAMillisecond ==
    (mode = "acquire" /\ max_tokens >= 1 /\ AsMillis(refill_rate) >= 1)
        => ((acq[1].pc # "idle") ~> (acq[1].pc = "idle"))

\* The caller's second call found the bucket empty, slept and returned.
C34_Witness ==
    /\ mode = "acquire"
    /\ granted = 2
    /\ acq[1].pc = "idle"
    /\ Len(acq_log) = 2
    /\ acq_log[2].slept
    /\ ~acq_log[1].slept

\* ---------------------------------------------------------------------------
\* C35: for every rate that from_env accepts, the limiter main builds from it
\* has max_tokens >= 1 and the refill interval 60 s / rate, a positive one.
C35_AcceptedRateGivesLimiter ==
    (mode = "config" /\ app_config.result = "ok" /\ mainPc # "direct")
        => /\ exit # "panic"
           /\ mainPc = "running"
           /\ max_tokens >= 1
           /\ refill_rate > 0
           /\ refill_rate * app_config.rate_limit_per_minute <= Secs(60)
           /\ (refill_rate + 1) * app_config.rate_limit_per_minute > Secs(60)

\* C35, as far as it holds: for every accepted rate other than 0 the limiter
\* has max_tokens = rate >= 1 and the refill interval 60 s / rate, which is
\* 1.2 s or more.
C35_AcceptedNonZeroRateGivesLimiter ==
    ( /\ mode = "config"
      /\ app_config.result = "ok"
      /\ mainPc # "direct"
      /\ app_config.rate_limit_per_minute # 0 )
        => /\ exit # "panic"
           /\ mainPc = "running"
           /\ max_tokens = app_config.rate_limit_per_minute
           /\ max_tokens >= 1
           /\ AsMillis(refill_rate) >= 1200
           /\ refill_rate * app_config.rate_limit_per_minute <= Secs(60)
           /\ (refill_rate + 1) * app_config.rate_limit_per_minute > Secs(60)

\* REDDIT_RATE_LIMIT_PER_MINUTE=50: capacity 50, a token every 1.2 s.
C35_Witness ==
    /\ mode = "config"
    /\ env.REDDIT_RATE_LIMIT_PER_MINUTE = <<"5", "0">>
    /\ mainPc = "running"
    /\ max_tokens = 50
    /\ AsMillis(refill_rate) = 1200

\* ---------------------------------------------------------------------------
\* C36: every delay slept between two connection attempts is at most
\* max_delay_ms, whatever initial_delay_ms and max_delay_ms are.
C36_DelaysAtMostMaxDelay ==
    \A i \in 1..Len(slept) : slept[i] <= retry_config.max_delay_ms

\* C36, as far as it holds: every delay after the first one is at most
\* max_delay_ms, and so is the first one when initial_delay_ms is not above
\* max_delay_ms; the first delay is initial_delay_ms in every case.
C36_DelaysAfterFirstAtMostMaxDelay ==
    /\ \A i \in 2..Len(slept) : slept[i] <= retry_config.max_delay_ms
    /\ slept # <<>> => slept[1] = retry_config.initial_delay_ms
    /\ retry_config.initial_delay_ms <= retry_config.max_delay_ms
         => \A i \in 1..Len(slept) : slept[i] <= retry_config.max_delay_ms

\* Initial delay 3 under the cap 10: the double of 6 is cut to 10.
C36_Witness ==
    /\ retry_config.initial_delay_ms = 3
    /\ retry_config.max_delay_ms = 10
    /\ slept = <<3, 6, 10, 10>>
    /\ connect_pc = "connect"

\* ---------------------------------------------------------------------------
\* C37: when every connection attempt returns and every sleep ends, a call of
\* connect_with_retry returns; when it has returned after n attempts it has
\* slept n - 1 times, and at every moment there is one sleep between two
\* consecutive attempts and none after the last attempt made.
C37_ReturnsAfterOneSleepBetweenAttempts ==
    /\ (connect_pc = "connect") ~> (connect_pc \in {"ok", "err"})
    /\ [](connect_pc \in {"ok", "err"} => Len(slept) = Len(connects) - 1)
    /\ [](connect_pc = "sleep" => Len(slept) = Len(connects))
    /\ [](connect_pc = "connect" => Len(slept) = Len(connects))

\* Three attempts allowed, all three failed: two sleeps, none after the last
\* failure.
C37_Witness ==
    /\ retry_config.max_retries = 3
    /\ connects = <<FALSE, FALSE, FALSE>>
    /\ connect_pc = "err"
    /\ Len(slept) = 2

\* ---------------------------------------------------------------------------
\* C38: called with an empty feed list, poll_combined_subreddits_loop returns
\* Ok in its first step, and that step takes no token, fetches nothing, reads
\* no mapping and leaves the store as it is; a call that has returned was made
\* with the empty list and has done none of these.  main() calls the loop
\* only with a non-empty list, the one it has just read from the store.
C38_EmptyListReturnsAtOnce ==
    /\ [][(pc = "entry" /\ subreddits = <<>>) =>
            /\ pc' \in {"entry", "returned"}
            /\ pc' = "returned" => (mode = "engine" => exit' = "completed")
            /\ UNCHANGED <<dbVars, limVars, mappings, listing, batches, histVars>>]_vars
    /\ [](pc = "returned" =>
            /\ subreddits = <<>>
            /\ tokens = 1
            /\ notified_posts = {}
            /\ outstanding = 0
            /\ sends = EmptyBag
            /\ mappings = <<>>
            /\ listing = <<>>
            /\ lastEv = "none")
    /\ []((mode = "engine" /\ pc # "idle") => (subreddits # <<>> /\ pc # "returned"))
    /\ [][(mode = "engine" /\ pc = "idle" /\ pc' # "idle") =>
            /\ pc' = "entry"
            /\ subreddits' = unique_subreddits(subscriptions, endpoints, links)
            /\ subreddits' # <<>>]_vars

\* The library function called with no feed has returned, a minute later.
C38_Witness ==
    /\ mode = "direct"
    /\ subreddits = <<>>
    /\ pc = "returned"
    /\ ticks = 1

\* The ledger rows of a pair, in the implementation called.
RowsOfPair(ps, rows, q) ==
    IF service = "mock"
    THEN {ps[k] : k \in {j \in 1..Len(ps) :
                            ps[j].subreddit = q[1] /\ ps[j].post_id = q[2]}}
    ELSE {r \in rows : r.subreddit = q[1] /\ r.post_id = q[2]}

\* ---------------------------------------------------------------------------
\* C39: a step of record_if_new(feed, id) changes the ledger rows of no pair
\* but <<feed, id>>, and the call that returns Ok answers true exactly when
\* its own pair had no row, whatever rows the other pairs have: the same id
\* under a feed whose name differs in letter case is another pair (SQLite and
\* mock implementation).
C39_OnlyTheRowOfThePair ==
    [][ /\ \A q \in Pairs :
             RowsOfPair(posts', notified_posts', q) # RowsOfPair(posts, notified_posts, q)
               => \E c \in Callers :
                    /\ calls[c].pc # "idle"
                    /\ calls'[c].pc = "idle"
                    /\ <<calls[c].subreddit, calls[c].post_id>> = q
                    /\ RowsOfPair(posts, notified_posts, q) = {}
                    /\ Cardinality(RowsOfPair(posts', notified_posts', q)) = 1
        /\ Len(log') > Len(log) =>
             LET e == log'[Len(log')]
                 own == <<e.subreddit, e.post_id>>
             IN /\ e.ok => (e.is_new <=> RowsOfPair(posts, notified_posts, own) = {})
                /\ e.ok => Cardinality(RowsOfPair(posts', notified_posts', own)) = 1
                /\ ~e.ok => UNCHANGED <<posts, notified_posts>>
                /\ \A q \in Pairs \ {own} :
                     RowsOfPair(posts', notified_posts', q)
                        = RowsOfPair(posts, notified_posts, q) ]_vars

\* r/rust and r/Rust both have their row for the id "abc", each recorded by
\* a call that answered true, the second one with the other's row present.
C39_Witness ==
    /\ Len(log) >= 2
    /\ log[Len(log)].is_new
    /\ \E k \in 1..(Len(log) - 1) :
         /\ log[k].is_new
         /\ log[k].post_id = log[Len(log)].post_id
         /\ log[k].subreddit # log[Len(log)].subreddit
    /\ \A q \in Pairs : Cardinality(RowsOfPair(posts, notified_posts, q)) = 1

\* ---------------------------------------------------------------------------
\* C40: no step of the engine changes the subscriptions, the endpoints or
\* their links, and none removes or rewrites a ledger row: the ledger changes
\* only where the poller calls record_if_new for an item, by the one row of a
\* pair that had none, so the set of ledger rows only grows.
C40_LoopOnlyInsertsLedgerRows ==
    [][ /\ UNCHANGED <<subscriptions, endpoints, links>>
        /\ notified_posts \subseteq notified_posts'
        /\ notified_posts' # notified_posts =>
             /\ pc = "item"
             /\ \E r \in notified_posts' \ notified_posts :
                  /\ notified_posts' = notified_posts \cup {r}
                  /\ r.subreddit = item'.subreddit
                  /\ r.post_id = item'.id
                  /\ ~\E o \in notified_posts :
                        o.subreddit = r.subreddit /\ o.post_id = r.post_id ]_vars

\* The engine has recorded two items, sent for them and met one of them
\* again; the configuration is the one it started with.
C40_Witness ==
    /\ mode = "engine"
    /\ Cardinality(notified_posts) = 2
    /\ sends # EmptyBag
    /\ lastEv = "dup"
    /\ subscriptions = Subscriptions0
    /\ endpoints = Endpoints0

====
